---- MODULE Spec2Model ----
(***************************************************************************)
(* A model of the sgl geometry library (src/sgl/sgl.hpp, src/sgl/sgl.cpp): *)
(* the geometry tree with its circular child lists, the part filter, the   *)
(* leaf visitor, and the WKB and WKT readers.                              *)
(***************************************************************************)
EXTENDS Integers, Sequences, FiniteSets, TLC

\* ------------------------------------------------------------------ bounds
\* Nodes the arena may hold in the tree specifications.
MaxNodes == 4

\* Vertices of the longest line or ring among the reader inputs.
MaxLineVerts == 2

\* The deepest chain of nested collections among the reader inputs.
MaxChain == 34

\* ------------------------------------------------------- geometry_type enum
INVALID == 0
POINT == 1
LINESTRING == 2
POLYGON == 3
MULTI_POINT == 4
MULTI_LINESTRING == 5
MULTI_POLYGON == 6
GEOMETRY_COLLECTION == 7

\* The null pointer.
NULL == 0

VARIABLES
    heap,     \* node id -> geometry object (next, prnt, type, flag bits, size, data)
    nalloc,   \* number of geometry objects allocated from the arena
    kids,     \* history: node id -> the children appended to it, in call order
    op,       \* the operation in progress on the tree: "idle", "filter", "visit"
    fp,       \* frame of the running filter_parts call
    vp,       \* frame of the running visit_leaf_geometries call
    rd,       \* the wkb_reader object: its fields, options and input range
    wk        \* frame of the running wkb_reader call and what it returned

treeVars == <<heap, nalloc, kids, op, fp, vp>>

vars == <<heap, nalloc, kids, op, fp, vp, rd, wk>>

Nodes == 1..MaxNodes

\* geometry::geometry(type, has_z, has_m): links null, size 0, data null.
NewGeometry(type, has_z, has_m) ==
    [next |-> NULL, prnt |-> NULL, type |-> type, z |-> has_z, m |-> has_m,
     size |-> 0, data |-> NULL, verts |-> <<>>]

\* geometry::geometry(): a node of type INVALID with no flags.
DefaultGeometry == NewGeometry(INVALID, FALSE, FALSE)

is_multi_part(g) == g.type >= POLYGON /\ g.type <= GEOMETRY_COLLECTION

is_multi_geom(g) == g.type >= MULTI_POINT /\ g.type <= GEOMETRY_COLLECTION

is_empty(g) == g.size = 0

get_last_part(h, n) == h[n].data

get_first_part(h, n) ==
    IF get_last_part(h, n) # NULL THEN h[get_last_part(h, n)].next ELSE NULL

\* A plausible slip in append_part: the new part is linked after the tail but
\* the tail pointer (data) is not advanced.
AppendPart_NoTailAdvance(h, n, part) ==
    LET tail == h[n].data
        h1 == IF tail = NULL
              THEN [h EXCEPT ![part].next = part]
              ELSE [h EXCEPT ![tail].next = part, ![part].next = h[tail].next]
    IN  [h1 EXCEPT ![part].prnt = n,
                   ![n].data = IF tail = NULL THEN part ELSE tail,
                   ![n].size = h[n].size + 1]

\* geometry::append_part: tail -> part, part -> head, data = part, size++.
AppendPart(h, n, part) ==
    LET tail == h[n].data
        h1 == IF tail = NULL
              THEN [h EXCEPT ![part].next = part]
              ELSE [h EXCEPT ![tail].next = part, ![part].next = h[tail].next]
    IN  [h1 EXCEPT ![part].prnt = n, ![n].data = part, ![n].size = h[n].size + 1]

\* The part kinds a reader links under a parent of kind ptype.
ChildTypes(ptype) ==
    CASE ptype = POLYGON -> {LINESTRING}
      [] ptype = MULTI_POINT -> {POINT}
      [] ptype = MULTI_LINESTRING -> {LINESTRING}
      [] ptype = MULTI_POLYGON -> {POLYGON}
      [] ptype = GEOMETRY_COLLECTION -> POINT..GEOMETRY_COLLECTION
      [] OTHER -> {}

\* The children of n, read off the circular list: size steps of next from the head.
RECURSIVE Walk(_, _, _)
Walk(h, c, k) == IF k = 0 \/ c = NULL THEN <<>> ELSE <<c>> \o Walk(h, h[c].next, k - 1)

ChildList(h, n) == Walk(h, get_first_part(h, n), h[n].size)

Range(s) == {s[i] : i \in DOMAIN s}

NoFilter == [node |-> NULL, tail |-> NULL, prev |-> NULL, shrank |-> FALSE,
             sel |-> {}, handled |-> <<>>, calls |-> <<>>, before |-> <<>>,
             done |-> FALSE]

NoVisit == [start |-> NULL, root |-> NULL, part |-> NULL, phase |-> "none",
            log |-> <<>>, iters |-> 0]

InitTree ==
    /\ nalloc = 1
    /\ \E t \in POLYGON..GEOMETRY_COLLECTION :
          heap = [n \in Nodes |-> IF n = 1 THEN NewGeometry(t, FALSE, FALSE)
                                  ELSE DefaultGeometry]
    /\ kids = [n \in Nodes |-> <<>>]
    /\ op = "idle"
    /\ fp = NoFilter
    /\ vp = NoVisit
    /\ rd = <<>>
    /\ wk = <<>>

\* A caller allocates a part in the arena and appends it to a multi-part node.
AppendPartAct ==
    /\ op = "idle"
    /\ nalloc < MaxNodes
    /\ \E n \in 1..nalloc : \E t \in ChildTypes(heap[n].type) :
          LET part == nalloc + 1
              h0 == [heap EXCEPT ![part] = NewGeometry(t, heap[n].z, heap[n].m)]
          IN  /\ heap' = AppendPart(h0, n, part)
              /\ kids' = [kids EXCEPT ![n] = Append(@, part)]
              /\ nalloc' = part
    /\ fp' = NoFilter
    /\ vp' = NoVisit
    /\ UNCHANGED <<op, rd, wk>>

\* ------------------------------------------------------------ filter_parts
\* Entry of geometry::filter_parts: an empty node returns at once; otherwise the
\* loop starts at the tail with the shrink flag set.  sel is the set of parts for
\* which the (deterministic) select callback answers true.
FilterBegin(h, n, sel) ==
    [node |-> n, tail |-> h[n].data, prev |-> h[n].data, shrank |-> TRUE,
     sel |-> sel, handled |-> <<>>, calls |-> <<>>, before |-> kids[n],
     done |-> h[n].data = NULL]

\* The loop condition of filter_parts.
FilterCond(h, f) == h[f.node].size > 0 /\ (f.prev # f.tail \/ f.shrank)

\* A plausible slip in the loop body: removing the tail moves the local tail
\* back to its predecessor but leaves the node's data word on the removed part.
FilterIter_StaleData(h, f) ==
    LET curr == h[f.prev].next
        next == h[curr].next
    IN  IF curr \in f.sel
        THEN LET h1 == [h EXCEPT ![f.prev].next = next]
                 h2 == [h1 EXCEPT ![f.node].size = h[f.node].size - 1]
                 tl == IF curr = f.tail THEN f.prev ELSE f.tail
                 h4 == [h2 EXCEPT ![curr].prnt = NULL]
                 h5 == [h4 EXCEPT ![curr].next = NULL]
             IN  [h |-> h5,
                  f |-> [f EXCEPT !.shrank = TRUE, !.tail = tl,
                                  !.calls = Append(@, curr),
                                  !.handled = Append(@, [node |-> curr,
                                                         prnt |-> h5[curr].prnt,
                                                         next |-> h5[curr].next])]]
        ELSE [h |-> h,
              f |-> [f EXCEPT !.shrank = FALSE, !.prev = curr,
                              !.calls = Append(@, curr)]]

\* One iteration of the loop of filter_parts: select is asked about curr; a
\* selected part is unlinked, its links are nulled and it is handed to handle
\* (recorded with the links it has at that moment); a kept part becomes prev.
FilterIter(h, f) ==
    LET curr == h[f.prev].next
        next == h[curr].next
    IN  IF curr \in f.sel
        THEN LET h1 == [h EXCEPT ![f.prev].next = next]
                 h2 == [h1 EXCEPT ![f.node].size = h[f.node].size - 1]
                 tl == IF curr = f.tail THEN f.prev ELSE f.tail
                 h3 == IF curr = f.tail THEN [h2 EXCEPT ![f.node].data = tl] ELSE h2
                 h4 == [h3 EXCEPT ![curr].prnt = NULL]
                 h5 == [h4 EXCEPT ![curr].next = NULL]
             IN  [h |-> h5,
                  f |-> [f EXCEPT !.shrank = TRUE, !.tail = tl,
                                  !.calls = Append(@, curr),
                                  !.handled = Append(@, [node |-> curr,
                                                         prnt |-> h5[curr].prnt,
                                                         next |-> h5[curr].next])]]
        ELSE [h |-> h,
              f |-> [f EXCEPT !.shrank = FALSE, !.prev = curr,
                              !.calls = Append(@, curr)]]

\* After the loop: a node that lost every part gets a null data word.
FilterEnd(h, f) ==
    IF h[f.node].size = 0 THEN [h EXCEPT ![f.node].data = NULL] ELSE h

Kept(f) == SelectSeq(f.before, LAMBDA c : c \notin f.sel)

Removed(f) == SelectSeq(f.before, LAMBDA c : c \in f.sel)

\* A caller invokes filter_parts on a multi-part node with some select predicate.
FilterStart ==
    /\ op = "idle"
    /\ \E n \in 1..nalloc : \E sel \in SUBSET Range(kids[n]) :
          /\ is_multi_part(heap[n])
          /\ fp' = FilterBegin(heap, n, sel)
          /\ op' = IF heap[n].data = NULL THEN "idle" ELSE "filter"
    /\ UNCHANGED <<heap, nalloc, kids, vp, rd, wk>>

FilterStep ==
    /\ op = "filter"
    /\ FilterCond(heap, fp)
    /\ LET r == FilterIter(heap, fp)
       IN  heap' = r.h /\ fp' = r.f
    /\ UNCHANGED <<nalloc, kids, op, vp, rd, wk>>

FilterReturn ==
    /\ op = "filter"
    /\ ~FilterCond(heap, fp)
    /\ heap' = FilterEnd(heap, fp)
    /\ fp' = [fp EXCEPT !.done = TRUE]
    /\ kids' = [kids EXCEPT ![fp.node] = Kept(fp)]
    /\ op' = "idle"
    /\ UNCHANGED <<nalloc, vp, rd, wk>>

\* --------------------------------------------------- visit_leaf_geometries
IsLeafKind(t) == t \in {POINT, LINESTRING, POLYGON}

\* A plausible slip: the sentinel is always null instead of the start's parent.
VisitBegin_NullRoot(h, n) ==
    [start |-> n, root |-> NULL, part |-> n, phase |-> "switch",
     log |-> <<>>, iters |-> 0]

\* Entry of visit_leaf_geometries: the sentinel is the parent of the start node.
VisitBegin(h, n) ==
    [start |-> n, root |-> h[n].prnt, part |-> n, phase |-> "switch",
     log |-> <<>>, iters |-> 0]

\* The switch of the outer loop: callback on a leaf kind, descent into a
\* non-empty multi geometry, nothing otherwise.
VisitSwitch(h, v) ==
    LET g == h[v.part]
    IN  IF IsLeafKind(g.type)
        THEN [v EXCEPT !.log = Append(@, v.part), !.phase = "ascend",
                       !.iters = @ + 1]
        ELSE IF is_multi_geom(g) /\ ~is_empty(g)
        THEN [v EXCEPT !.part = get_first_part(h, v.part), !.iters = @ + 1]
        ELSE [v EXCEPT !.phase = "ascend", !.iters = @ + 1]

\* One iteration of the inner loop: stop at the sentinel, step to the next
\* sibling, or climb to the parent.
VisitAscend(h, v) ==
    LET parent == h[v.part].prnt
    IN  IF parent = v.root
        THEN [v EXCEPT !.phase = "done", !.iters = @ + 1]
        ELSE IF v.part # get_last_part(h, parent)
        THEN [v EXCEPT !.part = h[v.part].next, !.phase = "switch",
                       !.iters = @ + 1]
        ELSE [v EXCEPT !.part = parent, !.iters = @ + 1]

VisitStart ==
    /\ op = "idle"
    /\ \E n \in 1..nalloc :
          /\ vp' = VisitBegin(heap, n)
          /\ op' = "visit"
    /\ UNCHANGED <<heap, nalloc, kids, fp, rd, wk>>

VisitStep ==
    /\ op = "visit"
    /\ vp.phase = "switch"
    /\ vp' = VisitSwitch(heap, vp)
    /\ UNCHANGED <<heap, nalloc, kids, op, fp, rd, wk>>

VisitClimb ==
    /\ op = "visit"
    /\ vp.phase = "ascend"
    /\ vp' = VisitAscend(heap, vp)
    /\ op' = IF vp'.phase = "done" THEN "idle" ELSE "visit"
    /\ UNCHANGED <<heap, nalloc, kids, fp, rd, wk>>

\* ------------------------------------------------------- tree specifications
NextTree == AppendPartAct \/ VisitStart \/ VisitStep \/ VisitClimb

SpecTree == InitTree /\ [][NextTree]_vars

NextFilter == AppendPartAct \/ FilterStart \/ FilterStep \/ FilterReturn

SpecFilter == InitTree /\ [][NextFilter]_vars

\* ------------------------------------------------------------ tree claims
\* C1: after any sequence of append_part calls on an initially empty node, data
\* is the last appended child, the tail's next is the first appended child, next
\* runs through the children in append order and comes back to the head after
\* part_count steps, part_count is the number of appends and every child's
\* parent is the node.
C1_AppendCircular ==
    \A n \in 1..nalloc :
        LET s == kids[n]
        IN  /\ heap[n].size = Len(s)
            /\ (s = <<>>) => heap[n].data = NULL
            /\ (s # <<>>) =>
                  /\ heap[n].data = s[Len(s)]
                  /\ heap[s[Len(s)]].next = s[1]
                  /\ \A i \in 1..(Len(s) - 1) : heap[s[i]].next = s[i + 1]
                  /\ \A i \in 1..Len(s) : heap[s[i]].prnt = n
                  /\ ChildList(heap, n) = s

C1_Witness == \E n \in 1..nalloc : Len(kids[n]) >= 3

\* C2: after filter_parts returns, the remaining children are those select
\* rejected, in their original order, the list is circular, part_count counts
\* them, data is null exactly when none remains, and each selected child went
\* to handle exactly once with null parent and next.
C2_FilterParts ==
    fp.done =>
        LET n == fp.node
            kept == Kept(fp)
        IN  /\ ChildList(heap, n) = kept
            /\ heap[n].size = Len(kept)
            /\ (heap[n].data = NULL) <=> (kept = <<>>)
            /\ (kept # <<>>) =>
                  /\ heap[n].data = kept[Len(kept)]
                  /\ heap[kept[Len(kept)]].next = kept[1]
                  /\ \A i \in 1..(Len(kept) - 1) : heap[kept[i]].next = kept[i + 1]
            /\ \A c \in Range(Removed(fp)) :
                  Cardinality({i \in DOMAIN fp.handled : fp.handled[i].node = c}) = 1
            /\ \A i \in DOMAIN fp.handled :
                  /\ fp.handled[i].node \in Range(Removed(fp))
                  /\ fp.handled[i].prnt = NULL
                  /\ fp.handled[i].next = NULL

C2_Witness ==
    /\ fp.done
    /\ Len(fp.before) >= 3
    /\ fp.before[Len(fp.before)] \in fp.sel
    /\ Len(Kept(fp)) >= 1
    /\ Len(Removed(fp)) >= 2

RECURSIVE LeavesOf(_)
RECURSIVE LeavesOfAll(_)
\* The leaf geometries under n in document order, from the append history.
LeavesOf(n) ==
    IF IsLeafKind(heap[n].type) THEN <<n>>
    ELSE IF is_multi_geom(heap[n]) THEN LeavesOfAll(kids[n])
    ELSE <<>>

LeavesOfAll(s) == IF s = <<>> THEN <<>> ELSE LeavesOf(Head(s)) \o LeavesOfAll(Tail(s))

RECURSIVE Reach(_)
\* The nodes of n's subtree that lie below multi geometries only.
Reach(n) ==
    {n} \cup (IF is_multi_geom(heap[n])
              THEN UNION {Reach(kids[n][i]) : i \in DOMAIN kids[n]}
              ELSE {})

\* C3: from any start node visit_leaf_geometries terminates (every node of the
\* subtree is entered and left at most once), calls back exactly once on each
\* POINT, LINESTRING and POLYGON reachable through multi geometries, in
\* document order, and never on a node outside the start node's subtree.
C3_VisitLeaves ==
    (vp.phase # "none") =>
        /\ vp.iters <= 2 * Cardinality(Reach(vp.start))
        /\ Range(vp.log) \subseteq Reach(vp.start)
        /\ vp.part \in Reach(vp.start)
        /\ (vp.phase = "done") => vp.log = LeavesOf(vp.start)

C3_Witness ==
    /\ vp.phase = "done"
    /\ vp.root # NULL
    /\ heap[vp.start].next # vp.start
    /\ is_multi_geom(heap[vp.start])
    /\ Len(vp.log) >= 1

\* ================================================================ WKB input
\* A byte range [buf, end) is a sequence of bytes; offsets count from 0.
\* Doubles are IEEE-754; the model's inputs use the values 0, 1, 2, 3 and NaN,
\* whose encodings differ only in their two most significant bytes.
NaN == 99

\* std::numeric_limits<double>::max() and lowest(), as model values.
DBL_MAX == 98
DBL_LOWEST == 0 - 98

Rev(s) == [i \in 1..Len(s) |-> s[Len(s) + 1 - i]]

\* The bytes of a 32-bit word, least significant first.
U32LE(n) == <<n % 256, (n \div 256) % 256, (n \div 65536) % 256, n \div 16777216>>

U32Bytes(n, le) == IF le THEN U32LE(n) ELSE Rev(U32LE(n))

\* The bytes of a double, least significant first.
F64LE(v) ==
    CASE v = 0 -> <<0, 0, 0, 0, 0, 0, 0, 0>>
      [] v = 1 -> <<0, 0, 0, 0, 0, 0, 240, 63>>
      [] v = 2 -> <<0, 0, 0, 0, 0, 0, 0, 64>>
      [] v = 3 -> <<0, 0, 0, 0, 0, 0, 8, 64>>
      [] OTHER -> <<0, 0, 0, 0, 0, 0, 248, 127>>

F64Bytes(v, le) == IF le THEN F64LE(v) ELSE Rev(F64LE(v))

\* The value of a double held in memory (least significant byte first).  Bit
\* patterns outside the table stand for some other finite value.
F64Val(b) ==
    CASE b[8] = 0 /\ b[7] = 0 -> 0
      [] b[8] = 63 /\ b[7] = 240 -> 1
      [] b[8] = 64 /\ b[7] = 0 -> 2
      [] b[8] = 64 /\ b[7] = 8 -> 3
      [] b[8] % 128 = 127 /\ b[7] >= 240 -> NaN
      [] OTHER -> 4 + (b[8] % 8)

isnan(v) == v = NaN

\* operator< on doubles: false when either side is NaN.
Less(a, b) == ~isnan(a) /\ ~isnan(b) /\ a < b

\* math::max and math::min.
math_max(a, b) == IF Less(a, b) THEN b ELSE a

math_min(a, b) == IF ~Less(b, a) THEN a ELSE b

RECURSIVE Flatten(_)
Flatten(ss) == IF ss = <<>> THEN <<>> ELSE Head(ss) \o Flatten(Tail(ss))

\* Dimension flags of an encoded geometry and how its type word carries them:
\* ISO adds 1000 * flags to the type code, EWKB sets the high bits.
Flags(z, m, ewkb, srid) == [z |-> z, m |-> m, ewkb |-> ewkb, srid |-> srid]

XY == Flags(FALSE, FALSE, FALSE, FALSE)
XYZ == Flags(TRUE, FALSE, FALSE, FALSE)
XYM == Flags(FALSE, TRUE, TRUE, FALSE)
XYZM == Flags(TRUE, TRUE, FALSE, FALSE)
XYS == Flags(FALSE, FALSE, TRUE, TRUE)
XYZE == Flags(TRUE, FALSE, TRUE, FALSE)

B2N(b) == IF b THEN 1 ELSE 0

\* byte order, type word and optional SRID of one geometry
Hdr(le, t, f) ==
    LET code == IF f.ewkb THEN t ELSE t + 1000 * (B2N(f.z) + 2 * B2N(f.m))
        hi == IF f.ewkb THEN 128 * B2N(f.z) + 64 * B2N(f.m) + 32 * B2N(f.srid) ELSE 0
        w == <<code % 256, code \div 256, 0, hi>>
    IN  <<B2N(le)>> \o (IF le THEN w ELSE Rev(w))
        \o (IF f.srid THEN U32Bytes(1, le) ELSE <<>>)

\* the ordinates of a model vertex: x, y and, as flagged, z and m
Vtx(le, f, x, y) ==
    F64Bytes(x, le) \o F64Bytes(y, le)
    \o (IF f.z THEN F64Bytes(3, le) ELSE <<>>)
    \o (IF f.m THEN F64Bytes(0, le) ELSE <<>>)

VtxNaN(le, f) ==
    F64Bytes(NaN, le) \o F64Bytes(NaN, le)
    \o (IF f.z THEN F64Bytes(NaN, le) ELSE <<>>)
    \o (IF f.m THEN F64Bytes(NaN, le) ELSE <<>>)

\* the first k of the model's line vertices (1,3), (2,2), (3,1), (0,0), ...
RECURSIVE LineVtx(_, _, _)
LineVtx(le, f, k) ==
    IF k = 0 THEN <<>>
    ELSE LineVtx(le, f, k - 1) \o Vtx(le, f, k % 4, (3 * k) % 4)

EncPoint(le, f, x, y) == Hdr(le, POINT, f) \o Vtx(le, f, x, y)

EncPointNaN(le, f) == Hdr(le, POINT, f) \o VtxNaN(le, f)

EncLine(le, f, k) == Hdr(le, LINESTRING, f) \o U32Bytes(k, le) \o LineVtx(le, f, k)

\* a polygon whose rings have the vertex counts ks
EncPoly(le, f, ks) ==
    Hdr(le, POLYGON, f) \o U32Bytes(Len(ks), le)
    \o Flatten([i \in 1..Len(ks) |-> U32Bytes(ks[i], le) \o LineVtx(le, f, ks[i])])

\* a multi geometry of kind t that declares n parts and holds the encodings ps
EncMulti(le, t, f, n, ps) == Hdr(le, t, f) \o U32Bytes(n, le) \o Flatten(ps)

\* =============================================================== wkb_reader
\* wkb_reader_error
OK == "OK"
UNSUPPORTED_TYPE == "UNSUPPORTED_TYPE"
OUT_OF_BOUNDS == "OUT_OF_BOUNDS"
RECURSION_LIMIT == "RECURSION_LIMIT"
MIXED_ZM == "MIXED_ZM"
INVALID_CHILD_TYPE == "INVALID_CHILD_TYPE"

\* wkb_reader::MAX_STACK_DEPTH and the length of wkb_reader::stack_buf
MAX_STACK_DEPTH == 32
StackBufLen == 16

\* A non-null data word that refers to a vertex array, not to a part.
ArrayPtr == 0 - 1

ZeroWord == <<0, 0, 0, 0>>

\* wkb_reader::wkb_reader.  stack holds stack_buf[0 .. stack_depth-1]: the
\* slots above stack_depth are always written before they are read.  hi is the
\* end of the highest byte read so far and oob tells whether stack_buf was
\* indexed outside its bounds (both history).  srid is written and never read,
\* and is left out.
NewReader ==
    [buf |-> <<>>, end |-> 0, pos |-> 0, hi |-> 0,
     copy_vertices |-> FALSE, allow_mixed_zm |-> FALSE, nan_as_empty |-> FALSE,
     error |-> OK, type_id |-> ZeroWord, le |-> FALSE,
     has_mixed_zm |-> FALSE, has_any_z |-> FALSE, has_any_m |-> FALSE,
     stack |-> <<>>, oob |-> FALSE]

Max(a, b) == IF a < b THEN b ELSE a

\* The byte at offset i of the reader's memory; beyond end it is whatever lies there.
ByteAt(r, i) == IF i + 1 \in DOMAIN r.buf THEN r.buf[i + 1] ELSE 0

BytesAt(r, from, n) == [i \in 1..n |-> ByteAt(r, from + i - 1)]

\* The value of a 32-bit word held least significant byte first.
U32Num(w) == w[1] + 256 * w[2] + 65536 * w[3] + 16777216 * w[4]

\* wkb_reader::skip
skip(r, size) ==
    IF r.pos + size > r.end
    THEN [r |-> [r EXCEPT !.error = OUT_OF_BOUNDS], ok |-> FALSE]
    ELSE [r |-> [r EXCEPT !.pos = @ + size], ok |-> TRUE]

\* wkb_reader::read_u8
read_u8(r) ==
    IF r.pos + 1 > r.end
    THEN [r |-> [r EXCEPT !.error = OUT_OF_BOUNDS], ok |-> FALSE, val |-> 0]
    ELSE [r |-> [r EXCEPT !.pos = @ + 1, !.hi = Max(@, r.pos + 1)], ok |-> TRUE,
          val |-> ByteAt(r, r.pos)]

\* A plausible slip in read_u32: the bounds test covers one byte, not four.
read_u32_ShortCheck(r) ==
    IF r.pos + 1 > r.end
    THEN [r |-> [r EXCEPT !.error = OUT_OF_BOUNDS], ok |-> FALSE, val |-> ZeroWord]
    ELSE [r |-> [r EXCEPT !.pos = @ + 4, !.hi = Max(@, r.pos + 4)], ok |-> TRUE,
          val |-> IF r.le THEN BytesAt(r, r.pos, 4) ELSE Rev(BytesAt(r, r.pos, 4))]

\* wkb_reader::read_u32: the word in native (least significant first) order
read_u32(r) ==
    IF r.pos + 4 > r.end
    THEN [r |-> [r EXCEPT !.error = OUT_OF_BOUNDS], ok |-> FALSE, val |-> ZeroWord]
    ELSE [r |-> [r EXCEPT !.pos = @ + 4, !.hi = Max(@, r.pos + 4)], ok |-> TRUE,
          val |-> IF r.le THEN BytesAt(r, r.pos, 4) ELSE Rev(BytesAt(r, r.pos, 4))]

\* wkb_reader::read_f64: the double in native order
read_f64(r) ==
    IF r.pos + 8 > r.end
    THEN [r |-> [r EXCEPT !.error = OUT_OF_BOUNDS], ok |-> FALSE, val |-> <<>>]
    ELSE [r |-> [r EXCEPT !.pos = @ + 8, !.hi = Max(@, r.pos + 8)], ok |-> TRUE,
          val |-> IF r.le THEN BytesAt(r, r.pos, 8) ELSE Rev(BytesAt(r, r.pos, 8))]

\* geometry::get_vertex_width
get_vertex_width(g) == 8 * (2 + B2N(g.z) + B2N(g.m))

\* geometry::set_vertex_array
set_vertex_array(h, n, ptr, bytes, count) ==
    [h EXCEPT ![n].data = ptr, ![n].size = count, ![n].verts = bytes]

\* The loop of read_point: k doubles, stopping at the first failed read.
RECURSIVE ReadCoords(_, _)
ReadCoords(r, k) ==
    IF k = 0 THEN [r |-> r, ok |-> TRUE, vals |-> <<>>]
    ELSE LET Rest(a, b) == [r |-> b.r, ok |-> b.ok, vals |-> <<a.val>> \o b.vals]
             First(a) ==
                 IF ~a.ok THEN [r |-> a.r, ok |-> FALSE, vals |-> <<>>]
                 ELSE Rest(a, ReadCoords(a.r, k - 1))
         IN  First(read_f64(r))

\* wkb_reader::read_point
read_point(r, h, n) ==
    LET dims == 2 + B2N(h[n].z) + B2N(h[n].m)
        Coords(c) ==
            IF ~c.ok THEN [r |-> c.r, h |-> h, ok |-> FALSE]
            ELSE IF r.nan_as_empty /\ \A i \in 1..Len(c.vals) : isnan(F64Val(c.vals[i]))
            THEN [r |-> c.r, h |-> set_vertex_array(h, n, NULL, <<>>, 0), ok |-> TRUE]
            ELSE IF r.le /\ ~r.copy_vertices
            THEN [r |-> c.r,
                  h |-> set_vertex_array(h, n, ArrayPtr, BytesAt(r, r.pos, 8 * dims), 1),
                  ok |-> TRUE]
            ELSE [r |-> c.r, h |-> set_vertex_array(h, n, ArrayPtr, Flatten(c.vals), 1),
                  ok |-> TRUE]
    IN  Coords(ReadCoords(r, dims))

\* The byte swap of read_line: dst[j + k] = src[j + 8 - k - 1] in every double.
SwapDoubles(b) ==
    [i \in 1..Len(b) |-> b[((i - 1) \div 8) * 8 + 8 - ((i - 1) % 8)]]

\* wkb_reader::read_line.  size_t has 64 bits, so vertex_count * vertex_width
\* does not wrap and pos + byte_size > end is vertex_count > (end - pos) / width.
read_line(r, h, n) ==
    LET vertex_width == get_vertex_width(h[n])
        Vertices(ra, vertex_count, byte_size, raw) ==
            [r |-> [ra EXCEPT !.pos = @ + byte_size, !.hi = Max(@, ra.pos + byte_size)],
             h |-> set_vertex_array(h, n, ArrayPtr,
                                    IF r.le THEN raw ELSE SwapDoubles(raw),
                                    vertex_count),
             ok |-> TRUE]
        Sized(ra, vertex_count, byte_size) ==
            Vertices(ra, vertex_count, byte_size, BytesAt(ra, ra.pos, byte_size))
        Counted(a, vertex_count) ==
            IF ~a.ok THEN [r |-> a.r, h |-> h, ok |-> FALSE]
            ELSE IF vertex_count > (a.r.end - a.r.pos) \div vertex_width
            THEN [r |-> [a.r EXCEPT !.error = OUT_OF_BOUNDS], h |-> h, ok |-> FALSE]
            ELSE Sized(a.r, vertex_count, vertex_count * vertex_width)
        Count(a) == Counted(a, U32Num(a.val))
    IN  Count(read_u32(r))

\* The fields of a type word: (type_id & 0xffff) % 1000 narrowed to the
\* 8-bit geometry_type, the ISO flags digit and the EWKB high bits.
TypeCode(w) == w[1] + 256 * w[2]

TypeOf(w) == (TypeCode(w) % 1000) % 256

HasZ(w) == TypeCode(w) \div 1000 = 1 \/ TypeCode(w) \div 1000 = 3 \/ w[4] >= 128

HasM(w) == TypeCode(w) \div 1000 = 2 \/ TypeCode(w) \div 1000 = 3 \/ (w[4] \div 64) % 2 = 1

HasSrid(w) == (w[4] \div 32) % 2 = 1

\* byte order, type word and optional SRID at the head of every geometry
ReadHeader(r) ==
    LET Srid(c) == [r |-> c.r, ok |-> c.ok]
        TypeId(b, rb) ==
            IF ~b.ok THEN [r |-> b.r, ok |-> FALSE]
            ELSE IF ~HasSrid(b.val) THEN [r |-> rb, ok |-> TRUE]
            ELSE Srid(read_u32(rb))
        TypeWord(b) == TypeId(b, [b.r EXCEPT !.type_id = b.val])
        ByteOrder(a) ==
            IF ~a.ok THEN [r |-> a.r, ok |-> FALSE]
            ELSE TypeWord(read_u32([a.r EXCEPT !.le = a.val # 0]))
    IN  ByteOrder(read_u8(r))

\* ------------------------------------------------------ wkb_reader::try_parse
NoExtent == [minx |-> 0, miny |-> 0, maxx |-> 0, maxy |-> 0]

\* extent_xy::smallest
smallest == [minx |-> DBL_MAX, miny |-> DBL_MAX, maxx |-> DBL_LOWEST, maxy |-> DBL_LOWEST]

\* No call made yet.  geom is the current geometry of try_parse; hz and hm are
\* the has_z and has_m locals of the last header; vcount and extent are the
\* locals of try_parse_stats; out_count and out_extent are its out-parameters
\* (set is whether they were assigned); pret is what try_parse returned on the
\* same input just before.
NoCall ==
    [mode |-> "none", pc |-> "idle", geom |-> NULL, ret |-> FALSE,
     hz |-> FALSE, hm |-> FALSE, vcount |-> 0, extent |-> NoExtent,
     set |-> FALSE, out_count |-> 0, out_extent |-> NoExtent, pret |-> FALSE]

\* "Setup state" at the top of try_parse and try_parse_stats.
Setup(r, input) ==
    [r EXCEPT !.buf = input, !.pos = 0, !.end = Len(input), !.hi = 0,
              !.error = OK, !.stack = <<>>, !.oob = FALSE,
              !.le = FALSE, !.type_id = ZeroWord,
              !.has_any_m = FALSE, !.has_any_z = FALSE]

Failed(r, h, w) == [rd |-> r, heap |-> h, wk |-> [w EXCEPT !.pc = "done", !.ret = FALSE]]

\* The ring loop of the POLYGON case: k rings still to read.
RECURSIVE ReadRings(_, _, _, _, _, _)
ReadRings(r, h, g, k, hz, hm) ==
    IF k = 0 THEN [r |-> r, h |-> h, ok |-> TRUE]
    ELSE LET ring == Len(h) + 1
             Ring(a) ==
                 IF ~a.ok THEN [r |-> a.r, h |-> a.h, ok |-> FALSE]
                 ELSE ReadRings(a.r, AppendPart(a.h, g, ring), g, k - 1, hz, hm)
         IN  Ring(read_line(r, Append(h, NewGeometry(LINESTRING, hz, hm)), ring))

\* "Compare with root": the flags of this geometry differ from the root's.
MixedZM(h, hz, hm) == h[1].m # hm \/ h[1].z # hz

\* "Check stack depth"
DepthExceeded(r) == Len(r.stack) >= MAX_STACK_DEPTH

\* The switch of try_parse on the kind of the current geometry.
ParseBody(r, h, w) ==
    LET g == w.geom
        t == h[g].type
        part == Len(h) + 1
        Leaf(a) ==
            IF ~a.ok THEN Failed(a.r, a.h, w)
            ELSE [rd |-> a.r, heap |-> a.h, wk |-> [w EXCEPT !.pc = "inner"]]
        Rings(a) ==
            IF ~a.ok THEN Failed(a.r, h, w)
            ELSE Leaf(ReadRings(a.r, h, g, U32Num(a.val), w.hz, w.hm))
        Parts(a, count) ==
            IF ~a.ok THEN Failed(a.r, h, w)
            ELSE IF count = 0
            THEN [rd |-> a.r, heap |-> h, wk |-> [w EXCEPT !.pc = "inner"]]
            ELSE [rd |-> [a.r EXCEPT !.stack = Append(@, count),
                                     !.oob = @ \/ Len(r.stack) >= StackBufLen],
                  heap |-> AppendPart(Append(h, NewGeometry(INVALID, w.hz, w.hm)), g, part),
                  wk |-> [w EXCEPT !.geom = part, !.pc = "outer"]]
        Count(a) == Parts(a, U32Num(a.val))
    IN  IF t = POINT THEN Leaf(read_point(r, h, g))
        ELSE IF t = LINESTRING THEN Leaf(read_line(r, h, g))
        ELSE IF t = POLYGON THEN Rings(read_u32(r))
        ELSE IF t \in MULTI_POINT..GEOMETRY_COLLECTION
        THEN IF DepthExceeded(r)
             THEN Failed([r EXCEPT !.error = RECURSION_LIMIT], h, w)
             ELSE Count(read_u32(r))
        ELSE Failed([r EXCEPT !.error = UNSUPPORTED_TYPE], h, w)

\* One pass of the outer loop of try_parse: the header, the flags of the current
\* geometry, the comparison with the root, and the switch.
ParseOuter(r, h, w) ==
    LET g == w.geom
        Checked(mixed, r1, h1, w1) ==
            IF mixed /\ ~r1.allow_mixed_zm
            THEN Failed([r1 EXCEPT !.error = MIXED_ZM], h1, w1)
            ELSE ParseBody(r1, h1, w1)
        Compared(ra, hz, hm, mixed, h1) ==
            Checked(mixed,
                    IF mixed
                    THEN [ra EXCEPT !.has_any_z = @ \/ hz, !.has_any_m = @ \/ hm,
                                    !.has_mixed_zm = TRUE]
                    ELSE ra,
                    h1, [w EXCEPT !.hz = hz, !.hm = hm])
        Flagged(ra, hz, hm, h1) ==
            Compared(ra, hz, hm, ~ra.has_mixed_zm /\ MixedZM(h1, hz, hm), h1)
        Typed(ra, hz, hm) ==
            Flagged(ra, hz, hm,
                    [h EXCEPT ![g].type = TypeOf(ra.type_id), ![g].z = hz, ![g].m = hm])
        Header(a) ==
            IF ~a.ok THEN Failed(a.r, h, w)
            ELSE Typed(a.r, HasZ(a.r.type_id), HasM(a.r.type_id))
    IN  Header(ReadHeader(r))

\* A plausible slip: the type of a finished part is not compared with the kind
\* of a MULTI_POLYGON parent.
ChildTypeBad_NoPolygon(ptype, ctype) ==
    \/ ptype = MULTI_POINT /\ ctype # POINT
    \/ ptype = MULTI_LINESTRING /\ ctype # LINESTRING

\* "Check that we are of the right type"
ChildTypeBad(ptype, ctype) ==
    \/ ptype = MULTI_POINT /\ ctype # POINT
    \/ ptype = MULTI_LINESTRING /\ ctype # LINESTRING
    \/ ptype = MULTI_POLYGON /\ ctype # POLYGON

\* stack_buf[stack_depth - 1]-- and the test that follows.  A slot inside the
\* array holds what was pushed.  A slot at index StackBufLen or above lies behind
\* the array: what is read back there is not defined, so the test may go either
\* way (more says which way it goes).
MoreParts(r, more) ==
    IF Len(r.stack) > StackBufLen THEN more ELSE r.stack[Len(r.stack)] - 1 > 0

DecTop(r) ==
    [r EXCEPT !.stack[Len(r.stack)] = @ - 1,
              !.oob = @ \/ Len(r.stack) > StackBufLen]

Pop(r) == [r EXCEPT !.stack = SubSeq(@, 1, Len(@) - 1)]

\* One pass of the inner loop of try_parse.
ParseInner(r, h, w, more) ==
    LET g == w.geom
        parent == h[g].prnt
    IN  IF Len(r.stack) = 0
        THEN [rd |-> r, heap |-> h, wk |-> [w EXCEPT !.pc = "done", !.ret = TRUE]]
        ELSE IF ChildTypeBad(h[parent].type, h[g].type)
        THEN Failed([r EXCEPT !.error = INVALID_CHILD_TYPE], h, w)
        ELSE IF MoreParts(r, more)
        THEN LET part == Len(h) + 1
                 h1 == Append(h, NewGeometry(INVALID, w.hz, w.hm))
             IN  [rd |-> DecTop(r), heap |-> AppendPart(h1, parent, part),
                  wk |-> [w EXCEPT !.geom = part, !.pc = "outer"]]
        ELSE [rd |-> Pop(DecTop(r)), heap |-> h, wk |-> [w EXCEPT !.geom = parent]]

\* ------------------------------------------------ wkb_reader::try_parse_stats
\* extent.min = min(extent.min, v), extent.max = max(extent.max, v)
Widen(e, x, y) ==
    [minx |-> math_min(e.minx, x), miny |-> math_min(e.miny, y),
     maxx |-> math_max(e.maxx, x), maxy |-> math_max(e.maxy, y)]

\* The vertex loop of the LINESTRING and POLYGON cases: k vertices still to
\* read; x and y are read, z and m are skipped.
RECURSIVE StatsVerts(_, _, _, _, _)
StatsVerts(r, k, hz, hm, e) ==
    IF k = 0 THEN [r |-> r, ok |-> TRUE, e |-> e]
    ELSE LET SkipM(x, y, m) ==
                 IF ~m.ok THEN [r |-> m.r, ok |-> FALSE, e |-> e]
                 ELSE StatsVerts(m.r, k - 1, hz, hm, Widen(e, F64Val(x.val), F64Val(y.val)))
             SkipZ(x, y, z) ==
                 IF ~z.ok THEN [r |-> z.r, ok |-> FALSE, e |-> e]
                 ELSE SkipM(x, y, IF hm THEN skip(z.r, 8) ELSE [r |-> z.r, ok |-> TRUE])
             ReadY(x, y) ==
                 IF ~y.ok THEN [r |-> y.r, ok |-> FALSE, e |-> e]
                 ELSE SkipZ(x, y, IF hz THEN skip(y.r, 8) ELSE [r |-> y.r, ok |-> TRUE])
             ReadX(x) ==
                 IF ~x.ok THEN [r |-> x.r, ok |-> FALSE, e |-> e]
                 ELSE ReadY(x, read_f64(x.r))
         IN  ReadX(read_f64(r))

\* num_points, then the vertex loop
StatsLine(r, hz, hm, e) ==
    LET Vertices(a, b) == [r |-> b.r, ok |-> b.ok, e |-> b.e, n |-> U32Num(a.val)]
        Count(a) ==
            IF ~a.ok THEN [r |-> a.r, ok |-> FALSE, e |-> e, n |-> 0]
            ELSE Vertices(a, StatsVerts(a.r, U32Num(a.val), hz, hm, e))
    IN  Count(read_u32(r))

\* The ring loop of the POLYGON case: k rings still to read.
RECURSIVE StatsRings(_, _, _, _, _, _)
StatsRings(r, k, hz, hm, e, n) ==
    IF k = 0 THEN [r |-> r, ok |-> TRUE, e |-> e, n |-> n]
    ELSE LET Ring(a) ==
                 IF ~a.ok THEN [r |-> a.r, ok |-> FALSE, e |-> a.e, n |-> n]
                 ELSE StatsRings(a.r, k - 1, hz, hm, a.e, n + a.n)
         IN  Ring(StatsLine(r, hz, hm, e))

\* The POINT case: x, y and, as flagged, z and m are read; an all-NaN point
\* counts as empty when nan_as_empty is set.
StatsPoint(r, hz, hm, e) ==
    LET Coords(c) ==
            IF ~c.ok THEN [r |-> c.r, ok |-> FALSE, e |-> e, n |-> 0]
            ELSE IF r.nan_as_empty /\ \A i \in 1..Len(c.vals) : isnan(F64Val(c.vals[i]))
            THEN [r |-> c.r, ok |-> TRUE, e |-> e, n |-> 0]
            ELSE [r |-> c.r, ok |-> TRUE,
                  e |-> Widen(e, F64Val(c.vals[1]), F64Val(c.vals[2])), n |-> 1]
    IN  Coords(ReadCoords(r, 2 + B2N(hz) + B2N(hm)))

StatsFailed(r, w) == [rd |-> r, wk |-> [w EXCEPT !.pc = "done", !.ret = FALSE]]

StatsLeaf(a, w) ==
    IF ~a.ok THEN StatsFailed(a.r, w)
    ELSE [rd |-> a.r,
          wk |-> [w EXCEPT !.pc = "inner", !.extent = a.e, !.vcount = @ + a.n]]

\* One pass of the outer loop of try_parse_stats.
StatsOuter(r, w) ==
    LET Rings(c, hz, hm) ==
            IF ~c.ok THEN StatsFailed(c.r, w)
            ELSE StatsLeaf(StatsRings(c.r, U32Num(c.val), hz, hm, w.extent, 0), w)
        Parts(ra, c, count) ==
            IF ~c.ok THEN StatsFailed(c.r, w)
            ELSE IF count = 0
            THEN [rd |-> c.r, wk |-> [w EXCEPT !.pc = "inner"]]
            ELSE [rd |-> [c.r EXCEPT !.stack = Append(@, count),
                                     !.oob = @ \/ Len(ra.stack) >= StackBufLen],
                  wk |-> w]
        Count(ra, c) == Parts(ra, c, U32Num(c.val))
        Typed(ra, t, hz, hm) ==
            IF t = POINT THEN StatsLeaf(StatsPoint(ra, hz, hm, w.extent), w)
            ELSE IF t = LINESTRING THEN StatsLeaf(StatsLine(ra, hz, hm, w.extent), w)
            ELSE IF t = POLYGON THEN Rings(read_u32(ra), hz, hm)
            ELSE IF t \in MULTI_POINT..GEOMETRY_COLLECTION
            THEN IF DepthExceeded(ra)
                 THEN StatsFailed([ra EXCEPT !.error = RECURSION_LIMIT], w)
                 ELSE Count(ra, read_u32(ra))
            ELSE StatsFailed([ra EXCEPT !.error = UNSUPPORTED_TYPE], w)
        Header(a) ==
            IF ~a.ok THEN StatsFailed(a.r, w)
            ELSE Typed(a.r, TypeOf(a.r.type_id), HasZ(a.r.type_id), HasM(a.r.type_id))
    IN  Header(ReadHeader(r))

\* One pass of the inner loop of try_parse_stats.
StatsInner(r, w, more) ==
    IF Len(r.stack) = 0
    THEN [rd |-> r,
          wk |-> [w EXCEPT !.pc = "done", !.ret = TRUE, !.set = TRUE,
                           !.out_count = w.vcount, !.out_extent = w.extent]]
    ELSE IF MoreParts(r, more)
    THEN [rd |-> DecTop(r), wk |-> [w EXCEPT !.pc = "outer"]]
    ELSE [rd |-> Pop(DecTop(r)), wk |-> w]

\* ------------------------------ ops::get_total_vertex_count / _extent_xy
\* visit_vertex_arrays: the POINT and LINESTRING nodes below geom in the order
\* the loop calls back on them.  phase "s" is the switch, "a" the inner loop.
RECURSIVE VertexArrays(_, _, _, _)
VertexArrays(h, root, part, phase) ==
    IF phase = "s"
    THEN IF h[part].type \in {POINT, LINESTRING}
         THEN <<part>> \o VertexArrays(h, root, part, "a")
         ELSE IF is_multi_part(h[part]) /\ ~is_empty(h[part])
         THEN VertexArrays(h, root, get_first_part(h, part), "s")
         ELSE VertexArrays(h, root, part, "a")
    ELSE LET parent == h[part].prnt
         IN  IF parent = root THEN <<>>
             ELSE IF part # get_last_part(h, parent)
             THEN VertexArrays(h, root, h[part].next, "s")
             ELSE VertexArrays(h, root, parent, "a")

Sum(f) == LET RECURSIVE S(_)
              S(i) == IF i = 0 THEN 0 ELSE f[i] + S(i - 1)
          IN  S(Len(f))

\* ops::get_total_vertex_count
get_total_vertex_count(h, n) ==
    LET parts == VertexArrays(h, h[n].prnt, n, "s")
    IN  Sum([i \in 1..Len(parts) |-> h[parts[i]].size])

\* the x and y of vertex i (from 0) of a vertex array of the given width
VertexXY(bytes, width, i) ==
    [x |-> F64Val(SubSeq(bytes, i * width + 1, i * width + 8)),
     y |-> F64Val(SubSeq(bytes, i * width + 9, i * width + 16))]

RECURSIVE FoldVerts(_, _, _, _, _)
FoldVerts(bytes, width, i, count, e) ==
    IF i = count THEN e
    ELSE LET v == VertexXY(bytes, width, i)
         IN  FoldVerts(bytes, width, i + 1, count, Widen(e, v.x, v.y))

RECURSIVE FoldParts(_, _, _)
FoldParts(h, parts, e) ==
    IF parts = <<>> THEN e
    ELSE LET g == h[Head(parts)]
         IN  FoldParts(h, Tail(parts),
                       FoldVerts(g.verts, get_vertex_width(g), 0, g.size, e))

\* ops::get_total_extent_xy: ext widened by every vertex below geom
get_total_extent_xy(h, n, ext) ==
    FoldParts(h, VertexArrays(h, h[n].prnt, n, "s"), ext)

\* ------------------------------------------------------------ reader inputs
Orders == {TRUE, FALSE}

\* leaf geometries with the flags f
Leaves(le, f) ==
    {EncPoint(le, f, 1, 2), EncPointNaN(le, f), EncLine(le, f, 0),
     EncLine(le, f, MaxLineVerts), EncPoly(le, f, <<>>),
     EncPoly(le, f, <<MaxLineVerts, 0, 1>>)}

\* flags that differ from f in Z or in M
OtherFlags(f) == IF f.z THEN XYM ELSE XYZ

\* geometries found as the parts of a multi geometry with the flags f: leaves,
\* a point with other flags, and multi geometries
PartsA(le, f) ==
    Leaves(le, f)
    \cup {EncPoint(le, OtherFlags(f), 1, 2),
          EncMulti(le, GEOMETRY_COLLECTION, f, 0, <<>>),
          EncMulti(le, MULTI_POINT, f, 1, <<EncPoint(le, f, 3, 0)>>),
          EncMulti(le, MULTI_LINESTRING, f, 1, <<EncPoint(le, f, 3, 0)>>)}

PartsB(le, f) ==
    {EncPoint(le, f, 0, 3), EncLine(le, f, 1), EncPoly(le, f, <<1>>),
     EncPoint(le, OtherFlags(f), 1, 2)}

\* multi geometries of every kind over zero, one or two parts
Multis ==
    UNION {
      {EncMulti(le, t, f, 0, <<>>)}
      \cup {EncMulti(le, t, f, 1, <<a>>) : a \in PartsA(le, f)}
      \cup {EncMulti(le, t, f, 2, <<a, b>>) : a \in PartsA(le, f), b \in PartsB(le, f)}
      : le \in Orders, t \in MULTI_POINT..GEOMETRY_COLLECTION, f \in {XY, XYZ}}

RootLeaves ==
    UNION {Leaves(le, f) : le \in Orders, f \in {XY, XYZ, XYM, XYZM, XYS, XYZE}}

\* d collections, each holding one part, around a point
RECURSIVE Chain(_, _)
Chain(d, le) ==
    IF d = 0 THEN EncPoint(le, XY, 1, 2)
    ELSE EncMulti(le, GEOMETRY_COLLECTION, XY, 1, <<Chain(d - 1, le)>>)

Chains == {Chain(d, TRUE) : d \in 1..MaxChain}

\* inputs that are not the encoding of a geometry: a type code no kind has, a
\* type code above 255, counts that promise more or less than follows, and a
\* part of another byte order
Odd ==
    {Hdr(TRUE, 8, XY) \o U32Bytes(0, TRUE),
     Hdr(TRUE, 257, XYM) \o Vtx(TRUE, XYM, 1, 2),
     EncMulti(TRUE, MULTI_POINT, XY, 3, <<EncPoint(TRUE, XY, 1, 2)>>),
     EncMulti(TRUE, MULTI_POINT, XY, 1, <<EncPoint(TRUE, XY, 1, 2), EncPoint(TRUE, XY, 3, 3)>>),
     EncMulti(TRUE, MULTI_LINESTRING, XY, 2,
              <<Hdr(TRUE, LINESTRING, XY) \o U32Bytes(0, TRUE) \o Vtx(TRUE, XY, 1, 2),
                EncLine(TRUE, XY, 1)>>),
     EncMulti(FALSE, GEOMETRY_COLLECTION, XYZ, 2,
              <<EncPoint(TRUE, XYZ, 1, 2),
                EncMulti(FALSE, MULTI_POLYGON, XYZ, 1, <<EncPoly(TRUE, XYZ, <<1>>)>>)>>),
     Hdr(TRUE, LINESTRING, XY) \o U32Bytes(16777215, TRUE) \o Vtx(TRUE, XY, 1, 2),
     Hdr(FALSE, POLYGON, XYZM) \o U32Bytes(65536, FALSE) \o U32Bytes(1, FALSE)
        \o Vtx(FALSE, XYZM, 1, 2)}

\* inputs cut short at every offset
Cut ==
    {EncPoint(FALSE, XYS, 1, 2),
     EncLine(TRUE, XYZ, MaxLineVerts),
     EncPoly(FALSE, XYM, <<1, 1>>),
     EncMulti(TRUE, MULTI_POLYGON, XY, 1, <<EncPoly(TRUE, XY, <<1>>)>>),
     EncMulti(FALSE, GEOMETRY_COLLECTION, XYZ, 2,
              <<EncPoint(FALSE, XYZ, 1, 2), EncLine(FALSE, XYZ, 1)>>),
     Chain(StackBufLen + 1, TRUE)}

Truncated == UNION {{SubSeq(b, 1, k) : k \in 0..(Len(b) - 1)} : b \in Cut}

Inputs == RootLeaves \cup Multis \cup Chains \cup Odd \cup Truncated

\* --------------------------------------------------------- reader actions
Idle == wk.mode = "none" /\ wk.pc = "idle"

\* set_copy_vertices, set_allow_mixed_zm, set_nan_as_empty
SetOptions ==
    /\ Idle
    /\ \E c, a, n \in BOOLEAN :
          /\ <<c, a, n>> # <<rd.copy_vertices, rd.allow_mixed_zm, rd.nan_as_empty>>
          /\ rd' = [rd EXCEPT !.copy_vertices = c, !.allow_mixed_zm = a,
                              !.nan_as_empty = n]
    /\ UNCHANGED <<heap, wk, nalloc, kids, op, fp, vp>>

\* try_parse(out, buf, end) on a default-constructed out
ParseCall ==
    /\ Idle
    /\ \E input \in Inputs : rd' = Setup(rd, input)
    /\ heap' = <<DefaultGeometry>>
    /\ wk' = [NoCall EXCEPT !.mode = "parse", !.pc = "outer", !.geom = 1]
    /\ UNCHANGED <<nalloc, kids, op, fp, vp>>

ParseOuterStep ==
    /\ wk.mode = "parse" /\ wk.pc = "outer"
    /\ LET x == ParseOuter(rd, heap, wk)
       IN  rd' = x.rd /\ heap' = x.heap /\ wk' = x.wk
    /\ UNCHANGED <<nalloc, kids, op, fp, vp>>

ParseInnerStep ==
    /\ wk.mode = "parse" /\ wk.pc = "inner"
    /\ \E more \in BOOLEAN :
          LET x == ParseInner(rd, heap, wk, more)
          IN  rd' = x.rd /\ heap' = x.heap /\ wk' = x.wk
    /\ UNCHANGED <<nalloc, kids, op, fp, vp>>

\* try_parse_stats(out_extent, out_vertex_count, buf, end) on the range that
\* try_parse was just given
StatsCall ==
    /\ wk.mode = "parse" /\ wk.pc = "done"
    /\ rd' = Setup(rd, rd.buf)
    /\ wk' = [NoCall EXCEPT !.mode = "stats", !.pc = "outer", !.pret = wk.ret,
                            !.extent = smallest]
    /\ UNCHANGED <<heap, nalloc, kids, op, fp, vp>>

StatsOuterStep ==
    /\ wk.mode = "stats" /\ wk.pc = "outer"
    /\ LET x == StatsOuter(rd, wk)
       IN  rd' = x.rd /\ wk' = x.wk
    /\ UNCHANGED <<heap, nalloc, kids, op, fp, vp>>

StatsInnerStep ==
    /\ wk.mode = "stats" /\ wk.pc = "inner"
    /\ \E more \in BOOLEAN :
          LET x == StatsInner(rd, wk, more)
          IN  rd' = x.rd /\ wk' = x.wk
    /\ UNCHANGED <<heap, nalloc, kids, op, fp, vp>>

\* The call has returned and the caller lets go of the byte range and of the
\* geometry it was given; the reader keeps every member other than the three
\* pointers into the range, which nothing reads before the next call sets them.
Release ==
    /\ wk.mode \in {"parse", "stats"} /\ wk.pc = "done"
    /\ rd' = [rd EXCEPT !.buf = <<>>, !.end = 0, !.pos = 0, !.hi = 0]
    /\ heap' = <<DefaultGeometry>>
    /\ wk' = NoCall
    /\ UNCHANGED <<nalloc, kids, op, fp, vp>>

InitWkb ==
    /\ heap = <<DefaultGeometry>>
    /\ nalloc = 0
    /\ kids = <<>>
    /\ op = "idle"
    /\ fp = NoFilter
    /\ vp = NoVisit
    /\ rd = NewReader
    /\ wk = NoCall

NextWkb ==
    \/ SetOptions
    \/ ParseCall
    \/ ParseOuterStep
    \/ ParseInnerStep
    \/ StatsCall
    \/ StatsOuterStep
    \/ StatsInnerStep
    \/ Release

SpecWkb == InitWkb /\ [][NextWkb]_vars

\* ------------------------------------------------------- wkb_reader claims
ParseDone == wk.mode = "parse" /\ wk.pc = "done"

StatsDone == wk.mode = "stats" /\ wk.pc = "done"

\* Inputs whose only defect is a part with other Z/M flags than the root's.
MixedInputs ==
    UNION {{EncMulti(le, t, f, 1, <<EncPoint(le, OtherFlags(f), 1, 2)>>),
            EncMulti(le, t, f, 2, <<EncPoint(le, f, 1, 2), EncPoint(le, OtherFlags(f), 1, 2)>>)}
           : le \in Orders, t \in {MULTI_POINT, GEOMETRY_COLLECTION}, f \in {XY, XYZ}}

\* C4: with allow_mixed_zm = false every call of try_parse on an input holding
\* a nested geometry whose Z/M flags differ from the root's returns false with
\* MIXED_ZM, whatever calls the reader served before.
C4_MixedAlwaysRejected ==
    (ParseDone /\ ~rd.allow_mixed_zm /\ rd.buf \in MixedInputs)
        => (~wk.ret /\ rd.error = MIXED_ZM)

ChainSeq == [d \in 1..MaxChain |-> Chain(d, TRUE)]

\* the tree of d collections, each the only part of the one above, over a point
IsChainTree(h, d) ==
    /\ Len(h) = d + 1
    /\ \A k \in 1..d :
          /\ h[k].type = GEOMETRY_COLLECTION
          /\ h[k].size = 1
          /\ h[k].data = k + 1
          /\ h[k + 1].prnt = k
          /\ h[k + 1].next = k + 1
    /\ h[1].prnt = NULL
    /\ h[d + 1].type = POINT
    /\ h[d + 1].size = 1

\* C5: d nested collections of one part each around a POINT parse into a tree
\* of depth d for every d <= 32, and fail with RECURSION_LIMIT for every d > 32.
C5_NestingCap ==
    (ParseDone /\ rd.buf \in Chains) =>
        \A d \in 1..MaxChain :
            (rd.buf = ChainSeq[d]) =>
                IF d <= MAX_STACK_DEPTH
                THEN wk.ret /\ rd.error = OK /\ IsChainTree(heap, d)
                ELSE ~wk.ret /\ rd.error = RECURSION_LIMIT

\* every part is of a kind its parent's kind admits
WellTyped(h) ==
    \A n \in DOMAIN h :
        (h[n].prnt # NULL) => h[n].type \in ChildTypes(h[h[n].prnt].type)

\* Inputs whose only defect is a part of a kind its MULTI_* parent does not admit.
WrongKindInputs ==
    UNION {
      {EncMulti(le, MULTI_POINT, f, 1, <<a>>)
          : a \in {EncLine(le, f, MaxLineVerts), EncPoly(le, f, <<>>),
                   EncMulti(le, GEOMETRY_COLLECTION, f, 0, <<>>),
                   EncMulti(le, MULTI_POINT, f, 1, <<EncPoint(le, f, 3, 0)>>)}}
      \cup {EncMulti(le, MULTI_LINESTRING, f, 2, <<EncLine(le, f, 0), EncPoint(le, f, 0, 3)>>),
            EncMulti(le, MULTI_LINESTRING, f, 1, <<EncPoly(le, f, <<MaxLineVerts, 0, 1>>)>>),
            EncMulti(le, MULTI_POLYGON, f, 2, <<EncPoly(le, f, <<>>), EncLine(le, f, 1)>>),
            EncMulti(le, MULTI_POLYGON, f, 1, <<EncPointNaN(le, f)>>),
            EncMulti(le, GEOMETRY_COLLECTION, f, 2,
                     <<EncMulti(le, MULTI_LINESTRING, f, 1, <<EncPoint(le, f, 3, 0)>>),
                       EncPoint(le, f, 0, 3)>>)}
      : le \in Orders, f \in {XY, XYZ}}

C6_WitnessRejected ==
    /\ ParseDone
    /\ rd.buf \in WrongKindInputs
    /\ rd.error = INVALID_CHILD_TYPE
    /\ heap[heap[wk.geom].prnt].type = MULTI_POLYGON

\* C7: try_parse and try_parse_stats never read a byte at or beyond end, the
\* read position stays within [buf, end], and an input that ends before a
\* required field returns false with OUT_OF_BOUNDS.
C7_InBounds ==
    /\ 0 <= rd.pos
    /\ rd.pos <= rd.end
    /\ rd.hi <= rd.end
    /\ ((ParseDone \/ StatsDone) /\ rd.buf \in Truncated)
          => (~wk.ret /\ rd.error = OUT_OF_BOUNDS)

C7_Witness ==
    /\ StatsDone
    /\ rd.buf \in Truncated
    /\ rd.error = OUT_OF_BOUNDS
    /\ rd.end > 40
    /\ rd.hi = rd.end

\* C8: when try_parse returns true, try_parse_stats on the same input and
\* options returns true, its vertex count is get_total_vertex_count of the
\* parsed tree and its extent is what get_total_extent_xy folds over the tree
\* from extent_xy::smallest().
C8_StatsAgree ==
    (StatsDone /\ wk.pret) =>
        /\ wk.ret
        /\ wk.out_count = get_total_vertex_count(heap, 1)
        /\ wk.out_extent = get_total_extent_xy(heap, 1, smallest)

\* the same, for calls that stayed inside stack_buf
C8_StatsAgreeInside ==
    (StatsDone /\ wk.pret /\ ~rd.oob /\ Len(heap) <= StackBufLen) =>
        /\ wk.ret
        /\ wk.out_count = get_total_vertex_count(heap, 1)
        /\ wk.out_extent = get_total_extent_xy(heap, 1, smallest)

\* =============================================================== wkt_reader
\* The keywords try_parse matches, one character per element.
kwSRID == <<"S", "R", "I", "D">>
kwPOINT == <<"P", "O", "I", "N", "T">>
kwLINESTRING == <<"L", "I", "N", "E", "S", "T", "R", "I", "N", "G">>
kwPOLYGON == <<"P", "O", "L", "Y", "G", "O", "N">>
kwMULTIPOINT == <<"M", "U", "L", "T", "I">> \o kwPOINT
kwMULTILINESTRING == <<"M", "U", "L", "T", "I">> \o kwLINESTRING
kwMULTIPOLYGON == <<"M", "U", "L", "T", "I">> \o kwPOLYGON
kwGEOMETRYCOLLECTION ==
    <<"G", "E", "O", "M", "E", "T", "R", "Y", "C", "O", "L", "L", "E", "C", "T", "I", "O", "N">>
kwINVALID == <<"I", "N", "V", "A", "L", "I", "D">>
kwEMPTY == <<"E", "M", "P", "T", "Y">>

\* error strings of wkt_reader::try_parse; no error is the null pointer
NoError == "nullptr"
ExpectedChar(c) == "Expected character: '" \o c \o "'"
ExpectedNumber == "Expected number"
ExpectedType == "Expected geometry type"
MixedError == "Mixed Z and M values are not supported"
UnsupportedType == "Unsupported geometry type"

\* what a read finds where memory holds the string terminator
NUL == "NUL"

UpperCase ==
    <<"A", "B", "C", "D", "E", "F", "G", "H", "I", "J", "K", "L", "M",
      "N", "O", "P", "Q", "R", "S", "T", "U", "V", "W", "X", "Y", "Z">>

LowerCase ==
    <<"a", "b", "c", "d", "e", "f", "g", "h", "i", "j", "k", "l", "m",
      "n", "o", "p", "q", "r", "s", "t", "u", "v", "w", "x", "y", "z">>

\* std::tolower
tolower(c) ==
    IF \E i \in DOMAIN UpperCase : UpperCase[i] = c
    THEN LowerCase[CHOOSE i \in DOMAIN UpperCase : UpperCase[i] = c]
    ELSE c

\* std::isspace
isspace(c) == c \in {" ", "\t", "\n", "\r"}

\* std::isdigit
isdigit(c) == c \in {"0", "1", "2", "3", "4", "5", "6", "7", "8", "9"}

\* wkt_reader::wkt_reader.  buf is the memory from the start of the range on:
\* the range [buf, end) and whatever lies behind it; pos and end are offsets.
NewWktReader == [buf |-> <<>>, end |-> 0, pos |-> 0, error |-> NoError]

\* *ptr
CharAt(r, i) == IF i + 1 \in DOMAIN r.buf THEN r.buf[i + 1] ELSE NUL

\* wkt_reader::match_ws
RECURSIVE match_ws(_)
match_ws(r) ==
    IF r.pos < r.end /\ isspace(CharAt(r, r.pos))
    THEN match_ws([r EXCEPT !.pos = @ + 1])
    ELSE r

\* The loop of match_str: the number of characters of str matched from ptr on.
RECURSIVE MatchLen(_, _, _, _)
MatchLen(r, ptr, str, k) ==
    IF ptr < r.end /\ k < Len(str) /\ tolower(str[k + 1]) = tolower(CharAt(r, ptr))
    THEN MatchLen(r, ptr + 1, str, k + 1)
    ELSE k

\* wkt_reader::match_str
match_str(r, str) ==
    IF MatchLen(r, r.pos, str, 0) # Len(str) THEN [r |-> r, ok |-> FALSE]
    ELSE [r |-> match_ws([r EXCEPT !.pos = @ + Len(str)]), ok |-> TRUE]

\* wkt_reader::match_char
match_char(r, c) ==
    IF r.pos < r.end /\ tolower(CharAt(r, r.pos)) = tolower(c)
    THEN [r |-> match_ws([r EXCEPT !.pos = @ + 1]), ok |-> TRUE]
    ELSE [r |-> r, ok |-> FALSE]

\* the first offset from i on, below limit, that holds no digit
RECURSIVE DigitsEnd(_, _, _)
DigitsEnd(r, i, limit) ==
    IF i < limit /\ isdigit(CharAt(r, i)) THEN DigitsEnd(r, i + 1, limit) ELSE i

\* The scan of match_number inside [pos, end): sign, digits, fraction, exponent.
ScanNumber(r) ==
    LET Sign(p) == IF p < r.end /\ CharAt(r, p) \in {"+", "-"} THEN p + 1 ELSE p
        Exponent(p) ==
            IF p < r.end /\ CharAt(r, p) \in {"e", "E"}
            THEN DigitsEnd(r, Sign(p + 1), r.end)
            ELSE p
        Fraction(p) ==
            IF p < r.end /\ CharAt(r, p) = "." THEN DigitsEnd(r, p + 1, r.end) ELSE p
    IN  Exponent(Fraction(DigitsEnd(r, Sign(r.pos), r.end)))

\* std::strtod(pos, &end_ptr) on decimal spellings: it knows nothing of end and
\* reads on until a character that cannot continue the number.
strtod(r) ==
    LET lim == Len(r.buf) + 1
        Sign(p) == IF CharAt(r, p) \in {"+", "-"} THEN p + 1 ELSE p
        ExpDigits(p3, q1, q2) == IF CharAt(r, p3) \in {"e", "E"} /\ q2 > q1 THEN q2 ELSE p3
        ExpSign(p3, q1) == ExpDigits(p3, q1, DigitsEnd(r, q1, lim))
        Exponent(p3) == ExpSign(p3, Sign(p3 + 1))
        Mantissa(p1, p2, p3) ==
            IF (p2 - p1) + (IF p3 > p2 THEN p3 - p2 - 1 ELSE 0) = 0 THEN r.pos
            ELSE Exponent(p3)
        Fraction(p1, p2) ==
            Mantissa(p1, p2, IF CharAt(r, p2) = "." THEN DigitsEnd(r, p2 + 1, lim) ELSE p2)
        Whole(p1) == Fraction(p1, DigitsEnd(r, p1, lim))
    IN  Whole(Sign(r.pos))

\* wkt_reader::match_number
match_number(r) ==
    LET Converted(end_ptr) ==
            IF end_ptr = r.pos THEN [r |-> r, ok |-> FALSE]
            ELSE [r |-> match_ws([r EXCEPT !.pos = end_ptr]), ok |-> TRUE]
    IN  IF ScanNumber(r) = r.pos THEN [r |-> r, ok |-> FALSE]
        ELSE Converted(strtod(r))

\* expect_char(C)
expect_char(r, c) ==
    LET Matched(a) ==
            IF a.ok THEN a ELSE [r |-> [r EXCEPT !.error = ExpectedChar(c)], ok |-> FALSE]
    IN  Matched(match_char(r, c))

\* for (i < vertex_stride) expect_number(vert[i])
RECURSIVE ReadVertex(_, _)
ReadVertex(r, k) ==
    IF k = 0 THEN [r |-> r, ok |-> TRUE]
    ELSE LET Number(a) ==
                 IF ~a.ok THEN [r |-> [r EXCEPT !.error = ExpectedNumber], ok |-> FALSE]
                 ELSE ReadVertex(a.r, k - 1)
         IN  Number(match_number(r))

\* do { vertex } while (match_char(',')): n counts the vertices pushed
RECURSIVE ReadVertices(_, _, _)
ReadVertices(r, stride, n) ==
    LET Comma(b) ==
            IF b.ok THEN ReadVertices(b.r, stride, n + 1)
            ELSE [r |-> b.r, ok |-> TRUE, n |-> n + 1]
        Vertex(a) ==
            IF ~a.ok THEN [r |-> a.r, ok |-> FALSE, n |-> n]
            ELSE Comma(match_char(a.r, ","))
    IN  Vertex(ReadVertex(r, stride))

\* '(' vertices ')' assigned to node g
ReadVertexList(r, h, g, stride) ==
    LET Close(b, c) ==
            [r |-> c.r, h |-> set_vertex_array(h, g, ArrayPtr, <<>>, b.n), ok |-> c.ok]
        Vertices(b) ==
            IF ~b.ok THEN [r |-> b.r, h |-> h, ok |-> FALSE]
            ELSE Close(b, expect_char(b.r, ")"))
        Open(a) ==
            IF ~a.ok THEN [r |-> a.r, h |-> h, ok |-> FALSE]
            ELSE Vertices(ReadVertices(a.r, stride, 0))
    IN  Open(expect_char(r, "("))

\* ------------------------------------------------------ wkt_reader::try_parse
\* No call of wkt_reader::try_parse made yet; prev is the error the reader
\* reported when the current call began (history).
NoWktCall == [mode |-> "wkt", pc |-> "idle", geom |-> NULL, ret |-> FALSE, prev |-> NoError]

\* "Setup state"
WktSetup_KeepError(r, mem, size) == [r EXCEPT !.buf = mem, !.end = size, !.pos = 0]

WktSetup(r, mem, size) ==
    [r EXCEPT !.buf = mem, !.end = size, !.pos = 0, !.error = NoError]

\* geometry::reset
reset(h, n) ==
    [h EXCEPT ![n] = [next |-> NULL, prnt |-> NULL, type |-> INVALID, z |-> FALSE,
                      m |-> FALSE, size |-> 0, data |-> NULL, verts |-> <<>>]]

WktFailed(r, h, w) == [rd |-> r, heap |-> h, wk |-> [w EXCEPT !.pc = "done", !.ret = FALSE]]

\* "Skip leading SRID"
SkipSrid(r) ==
    LET Semi(s) ==
            CHOOSE p \in s.pos..Max(s.pos, s.end) :
                /\ (p < s.end => CharAt(s, p) = ";")
                /\ \A q \in s.pos..(p - 1) : q < s.end /\ CharAt(s, q) # ";"
        Srid(a) ==
            IF ~a.ok THEN [r |-> a.r, ok |-> TRUE]
            ELSE expect_char([a.r EXCEPT !.pos = Semi(a.r)], ";")
    IN  Srid(match_str(r, kwSRID))

\* The prologue of wkt try_parse: "Setup state", "Reset the geometry", "Skip
\* whitespace", "Skip leading SRID".
WktBegin(r, h, w, mem, size) ==
    LET w1 == [w EXCEPT !.geom = 1, !.prev = r.error]
        Skipped(a) ==
            IF ~a.ok THEN WktFailed(a.r, reset(h, 1), w1)
            ELSE [rd |-> a.r, heap |-> reset(h, 1), wk |-> [w1 EXCEPT !.pc = "outer"]]
    IN  Skipped(SkipSrid(match_ws(WktSetup(r, mem, size))))

\* The rings of a polygon (and the lines of a MULTI_LINESTRING, which the code
\* reads with the same loop): do { part; append_part } while (match_char(','))
RECURSIVE ReadLines(_, _, _, _, _, _)
ReadLines(r, h, g, hz, hm, stride) ==
    LET ring == Len(h) + 1
        Comma(b, h2) ==
            IF b.ok THEN ReadLines(b.r, h2, g, hz, hm, stride)
            ELSE [r |-> b.r, h |-> h2, ok |-> TRUE]
        Line(a) ==
            IF ~a.ok THEN a
            ELSE Comma(match_char(a.r, ","), AppendPart(a.h, g, ring))
        Empty(e, h1) ==
            Line(IF e.ok THEN [r |-> e.r, h |-> h1, ok |-> TRUE]
                 ELSE ReadVertexList(e.r, h1, ring, stride))
    IN  Empty(match_str(r, kwEMPTY), Append(h, NewGeometry(LINESTRING, hz, hm)))

\* '(' lines ')'
ReadLineList(r, h, g, hz, hm, stride) ==
    LET Close(b, c) == [r |-> c.r, h |-> b.h, ok |-> c.ok]
        Lines(b) == IF ~b.ok THEN b ELSE Close(b, expect_char(b.r, ")"))
        Open(a) ==
            IF ~a.ok THEN [r |-> a.r, h |-> h, ok |-> FALSE]
            ELSE Lines(ReadLines(a.r, h, g, hz, hm, stride))
    IN  Open(expect_char(r, "("))

\* The points of a MULTI_POINT: parentheses around each are optional.
RECURSIVE ReadPoints(_, _, _, _, _, _)
ReadPoints(r, h, g, hz, hm, stride) ==
    LET point == Len(h) + 1
        Comma(b, h2) ==
            IF b.ok THEN ReadPoints(b.r, h2, g, hz, hm, stride)
            ELSE [r |-> b.r, h |-> h2, ok |-> TRUE]
        Close(a, c) ==
            IF ~c.ok THEN [r |-> c.r, h |-> a.h, ok |-> FALSE]
            ELSE Comma(match_char(c.r, ","), AppendPart(a.h, g, point))
        Point(p, a) ==
            IF ~a.ok THEN a
            ELSE Close(a, IF p.ok THEN expect_char(a.r, ")") ELSE [r |-> a.r, ok |-> TRUE])
        Vertex(v, h1) ==
            IF ~v.ok THEN [r |-> v.r, h |-> h1, ok |-> FALSE]
            ELSE [r |-> v.r, h |-> set_vertex_array(h1, point, ArrayPtr, <<>>, 1), ok |-> TRUE]
        Empty(p, e, h1) ==
            Point(p, IF e.ok THEN [r |-> e.r, h |-> h1, ok |-> TRUE]
                     ELSE Vertex(ReadVertex(e.r, stride), h1))
        Paren(p) == Empty(p, match_str(p.r, kwEMPTY), Append(h, NewGeometry(POINT, hz, hm)))
    IN  Paren(match_char(r, "("))

\* The polygons of a MULTI_POLYGON.
RECURSIVE ReadPolygons(_, _, _, _, _, _)
ReadPolygons(r, h, g, hz, hm, stride) ==
    LET poly == Len(h) + 1
        Comma(b, h2) ==
            IF b.ok THEN ReadPolygons(b.r, h2, g, hz, hm, stride)
            ELSE [r |-> b.r, h |-> h2, ok |-> TRUE]
        Polygon(a) ==
            IF ~a.ok THEN a
            ELSE Comma(match_char(a.r, ","), AppendPart(a.h, g, poly))
        Empty(e, h1) ==
            Polygon(IF e.ok THEN [r |-> e.r, h |-> h1, ok |-> TRUE]
                    ELSE ReadLineList(e.r, h1, poly, hz, hm, stride))
    IN  Empty(match_str(r, kwEMPTY), Append(h, NewGeometry(POLYGON, hz, hm)))

\* The chain of match_str calls on the type names, in the order of the code.
MatchType(r) ==
    LET names == <<kwPOINT, kwLINESTRING, kwPOLYGON, kwMULTIPOINT, kwMULTILINESTRING,
                   kwMULTIPOLYGON, kwGEOMETRYCOLLECTION, kwINVALID>>
        types == <<POINT, LINESTRING, POLYGON, MULTI_POINT, MULTI_LINESTRING,
                   MULTI_POLYGON, GEOMETRY_COLLECTION, INVALID>>
        Matched(i) == [r |-> match_str(r, names[i]).r, ok |-> TRUE, type |-> types[i]]
        First(hits) ==
            IF hits = {}
            THEN [r |-> [r EXCEPT !.error = ExpectedType], ok |-> FALSE, type |-> INVALID]
            ELSE Matched(CHOOSE i \in hits : \A j \in hits : i <= j)
    IN  First({i \in DOMAIN names : match_str(r, names[i]).ok})

\* A plausible slip: the comparison with the root looks at has_z only.
WktMixedZM_ZOnly(h, g) == h[g].z # h[1].z

\* "(geom->has_m() != root->has_m()) || (geom->has_z() != root->has_z())"
WktMixedZM(h, g) == h[g].m # h[1].m \/ h[g].z # h[1].z

\* The switch of wkt try_parse on the kind of the current geometry.
WktBody(r, h, w, stride) ==
    LET g == w.geom
        t == h[g].type
        part == Len(h) + 1
        Read(a) ==
            IF ~a.ok THEN WktFailed(a.r, a.h, w)
            ELSE [rd |-> a.r, heap |-> a.h, wk |-> [w EXCEPT !.pc = "inner"]]
        Close(h2, c) == [r |-> c.r, h |-> h2, ok |-> c.ok]
        Parts(b) == IF ~b.ok THEN b ELSE Close(b.h, expect_char(b.r, ")"))
        Vertex(pt) ==
            IF ~pt.ok THEN [r |-> pt.r, h |-> h, ok |-> FALSE]
            ELSE Close(set_vertex_array(h, g, ArrayPtr, <<>>, 1), expect_char(pt.r, ")"))
        Open(open) ==
            IF ~open.ok THEN WktFailed(open.r, h, w)
            ELSE IF t = GEOMETRY_COLLECTION
            THEN [rd |-> open.r,
                  heap |-> AppendPart(Append(h, NewGeometry(INVALID, FALSE, FALSE)), g, part),
                  wk |-> [w EXCEPT !.geom = part, !.pc = "outer"]]
            ELSE Read(IF t = POINT THEN Vertex(ReadVertex(open.r, stride))
                      ELSE IF t = MULTI_POINT
                      THEN Parts(ReadPoints(open.r, h, g, h[g].z, h[g].m, stride))
                      ELSE Parts(ReadPolygons(open.r, h, g, h[g].z, h[g].m, stride)))
    IN  IF t = INVALID THEN WktFailed([r EXCEPT !.error = UnsupportedType], h, w)
        ELSE IF t = LINESTRING THEN Read(ReadVertexList(r, h, g, stride))
        ELSE IF t \in {POLYGON, MULTI_LINESTRING}
        THEN Read(ReadLineList(r, h, g, h[g].z, h[g].m, stride))
        ELSE Open(expect_char(r, "("))

\* One pass of the main loop of wkt try_parse: type name, Z and M, the
\* comparison with the root, EMPTY or the body.
WktOuter(r, h, w) ==
    LET g == w.geom
        Empty(e, h1) ==
            IF e.ok THEN [rd |-> e.r, heap |-> h1, wk |-> [w EXCEPT !.pc = "inner"]]
            ELSE WktBody(e.r, h1, w, 2 + B2N(h1[g].z) + B2N(h1[g].m))
        Compare(r1, h1) ==
            IF WktMixedZM(h1, g) THEN WktFailed([r1 EXCEPT !.error = MixedError], h1, w)
            ELSE Empty(match_str(r1, kwEMPTY), h1)
        SuffixM(t, z, m) ==
            Compare(m.r, [h EXCEPT ![g].type = t.type,
                                 ![g].z = IF z.ok THEN TRUE ELSE @,
                                 ![g].m = IF m.ok THEN TRUE ELSE @])
        SuffixZ(t, z) == SuffixM(t, z, match_char(z.r, "m"))
        Type(t) == IF ~t.ok THEN WktFailed(t.r, h, w) ELSE SuffixZ(t, match_char(t.r, "z"))
    IN  Type(MatchType(r))

\* One pass of the inner loop of wkt try_parse.
WktInner(r, h, w) ==
    LET g == w.geom
        parent == h[g].prnt
        part == Len(h) + 1
        Close(c) ==
            IF ~c.ok THEN WktFailed(c.r, h, w)
            ELSE [rd |-> c.r, heap |-> h, wk |-> [w EXCEPT !.geom = parent]]
        Comma(a) ==
            IF a.ok
            THEN [rd |-> a.r,
                  heap |-> AppendPart(Append(h, NewGeometry(INVALID, FALSE, FALSE)), parent, part),
                  wk |-> [w EXCEPT !.geom = part, !.pc = "outer"]]
            ELSE Close(expect_char(a.r, ")"))
    IN  IF parent = NULL
        THEN [rd |-> r, heap |-> h, wk |-> [w EXCEPT !.pc = "done", !.ret = TRUE]]
        ELSE Comma(match_char(r, ","))

\* ------------------------------------------------------------- wkt inputs
\* numerals beyond "2" are spelled with a sign, a fraction or an exponent
Numerals == <<<<"1">>, <<"2">>, <<"-", "3", ".", "5">>, <<"4", "e", "1">>>>

\* the " Z", " M" or " ZM" that follows a type name
Suffix(f) ==
    IF f.z /\ f.m THEN <<" ", "Z", "M">>
    ELSE IF f.z THEN <<" ", "Z">>
    ELSE IF f.m THEN <<" ", "M">>
    ELSE <<>>

\* one vertex of the width the flags ask for
WVertex(f) ==
    Numerals[1] \o <<" ">> \o Numerals[2]
    \o (IF f.z THEN <<" ">> \o Numerals[3] ELSE <<>>)
    \o (IF f.m THEN <<" ">> \o Numerals[4] ELSE <<>>)

RECURSIVE Sep(_, _)
\* the elements of ss joined by sep
Sep(ss, sep) ==
    IF ss = <<>> THEN <<>>
    ELSE IF Len(ss) = 1 THEN ss[1]
    ELSE ss[1] \o sep \o Sep(Tail(ss), sep)

\* "(v, v, ...)" with k vertices
WVertexList(f, k) == <<"(">> \o Sep([i \in 1..k |-> WVertex(f)], <<",", " ">>) \o <<")">>

WEmpty(kw, f) == kw \o Suffix(f) \o <<" ">> \o kwEMPTY

WPoint(f) == kwPOINT \o Suffix(f) \o <<" ">> \o WVertexList(f, 1)

WLine(f, k) == kwLINESTRING \o Suffix(f) \o WVertexList(f, k)

\* "((ring), (ring))"
WRings(f, ks) == <<"(">> \o Sep([i \in 1..Len(ks) |-> WVertexList(f, ks[i])], <<",">>) \o <<")">>

WPoly(f, ks) == kwPOLYGON \o Suffix(f) \o <<" ">> \o WRings(f, ks)

WMultiPoint(f, paren) ==
    kwMULTIPOINT \o Suffix(f) \o <<"(">>
    \o (IF paren THEN WVertexList(f, 1) ELSE WVertex(f))
    \o <<",">> \o kwEMPTY \o <<",", " ">> \o WVertex(f) \o <<")">>

WMultiLine(f) ==
    kwMULTILINESTRING \o Suffix(f) \o <<" ", "(">> \o WVertexList(f, MaxLineVerts)
    \o <<",", " ">> \o kwEMPTY \o <<")">>

WMultiPoly(f) ==
    kwMULTIPOLYGON \o Suffix(f) \o <<"(">> \o WRings(f, <<MaxLineVerts, 1>>)
    \o <<",">> \o kwEMPTY \o <<",">> \o <<"(">> \o kwEMPTY \o <<")">> \o <<")">>

WColl(f, members) ==
    kwGEOMETRYCOLLECTION \o Suffix(f) \o <<" ", "(">> \o Sep(members, <<",", " ">>) \o <<")">>

WktFlags == {XY, XYZ, XYM, XYZM}

\* geometries with the flags f that hold no collection
WktSimple(f) ==
    {WPoint(f), WLine(f, MaxLineVerts), WPoly(f, <<1, MaxLineVerts>>), WMultiPoint(f, TRUE),
     WMultiPoint(f, FALSE), WMultiLine(f), WMultiPoly(f), WEmpty(kwPOINT, f),
     WEmpty(kwMULTIPOLYGON, f), WEmpty(kwGEOMETRYCOLLECTION, f)}

\* members of a collection with the flags f: geometries of the same flags
WktSame(f) ==
    {WPoint(f), WLine(f, 1), WMultiPoint(f, FALSE), WEmpty(kwPOLYGON, f),
     WColl(f, <<WPoint(f)>>)}

\* and geometries that have, or hold a geometry that has, other flags
WktOther(f) ==
    {WPoint(g) : g \in WktFlags \ {f}}
    \cup {WEmpty(kwLINESTRING, OtherFlags(f)), WMultiLine(OtherFlags(f)),
          WColl(f, <<WPoint(f), WPoint(OtherFlags(f))>>)}

WktMembers(f) == WktSame(f) \cup WktOther(f)

WktColls(f) ==
    {WColl(f, <<a>>) : a \in WktMembers(f)}
    \cup {WColl(f, <<a, b>>) : a \in WktMembers(f), b \in WktMembers(f)}

\* an input in lower case
ToLower(s) == [i \in DOMAIN s |-> tolower(s[i])]

\* inputs that are not the text of a geometry
WktOdd ==
    {<<"F", "O", "O", "B", "A", "R">> \o WVertexList(XYZ, 1),
     kwINVALID \o <<" ", "(", "1", " ", "2">>,
     kwINVALID \o <<" ">> \o kwEMPTY,
     kwSRID \o <<"=", "4", "3", "2", "6", ";">> \o WPoint(XY),
     kwSRID \o <<"=", "4", "3", "2", "6">> \o WPoint(XY),
     <<" ", " ">> \o ToLower(WColl(XYZ, <<WLine(XYZ, 1), WEmpty(kwPOINT, XYZ)>>)),
     kwPOINT \o <<"(", "1", " ", ".", ")">>,
     kwPOINT \o <<"(", "1", "e", " ", "2", ")">>,
     kwPOINT \o <<" ", "M", "Z", "(", "1", " ", "2", " ", "1", " ", "2", ")">>,
     kwMULTIPOINT \o <<"(", "(", "1", " ", "2", ",", "1", " ", "2", ")", ")">>,
     WColl(XY, <<>>),
     WPoint(XY) \o <<",">> \o WPoint(XYZ)}

WktCut ==
    {WPoint(XYZ), WMultiPoint(XYM, TRUE), WPoly(XY, <<1, 1>>), WMultiPoly(XY),
     WColl(XYZ, <<WLine(XYZ, 1), WColl(XYZ, <<WPoint(XYZ)>>)>>)}

WktTruncated == UNION {{SubSeq(b, 1, k) : k \in 0..(Len(b) - 1)} : b \in WktCut}

WktInputs ==
    UNION {WktSimple(f) \cup WktColls(f) : f \in WktFlags} \cup WktOdd \cup WktTruncated

\* what memory holds behind the range: the terminator, or more of a number
Behind == {<<>>, <<"5", "e", "2">>}

\* --------------------------------------------------------- wkt_reader actions
WktIdle == wk.mode = "wkt" /\ wk.pc = "idle"

\* wkt_reader::try_parse(out, buf, end)
WktCall ==
    /\ WktIdle
    /\ \E input \in WktInputs, behind \in Behind :
          LET x == WktBegin(rd, heap, wk, input \o behind, Len(input))
          IN  rd' = x.rd /\ heap' = x.heap /\ wk' = x.wk
    /\ UNCHANGED <<nalloc, kids, op, fp, vp>>

WktOuterStep ==
    /\ wk.mode = "wkt" /\ wk.pc = "outer"
    /\ LET x == WktOuter(rd, heap, wk)
       IN  rd' = x.rd /\ heap' = x.heap /\ wk' = x.wk
    /\ UNCHANGED <<nalloc, kids, op, fp, vp>>

WktInnerStep ==
    /\ wk.mode = "wkt" /\ wk.pc = "inner"
    /\ LET x == WktInner(rd, heap, wk)
       IN  rd' = x.rd /\ heap' = x.heap /\ wk' = x.wk
    /\ UNCHANGED <<nalloc, kids, op, fp, vp>>

\* The call has returned and the caller lets go of the text and of the geometry.
WktRelease ==
    /\ wk.mode = "wkt" /\ wk.pc = "done"
    /\ rd' = [rd EXCEPT !.buf = <<>>, !.end = 0, !.pos = 0]
    /\ heap' = <<DefaultGeometry>>
    /\ wk' = NoWktCall
    /\ UNCHANGED <<nalloc, kids, op, fp, vp>>

InitWkt ==
    /\ heap = <<DefaultGeometry>>
    /\ nalloc = 0
    /\ kids = <<>>
    /\ op = "idle"
    /\ fp = NoFilter
    /\ vp = NoVisit
    /\ rd = NewWktReader
    /\ wk = NoWktCall

NextWkt == WktCall \/ WktOuterStep \/ WktInnerStep \/ WktRelease

SpecWkt == InitWkt /\ [][NextWkt]_vars

\* a program holds a reader of either class
InitReaders == InitWkb \/ InitWkt

NextReaders == NextWkb \/ NextWkt

SpecReaders == InitReaders /\ [][NextReaders]_vars

\* ------------------------------------------------------- wkt_reader claims
WktDone == wk.mode = "wkt" /\ wk.pc = "done"

\* the range [buf, end) the call was given
WktText == SubSeq(rd.buf, 1, rd.end)

\* C9: after any call of try_parse, of wkt_reader and of wkb_reader, the call
\* returned true exactly when the reader reports no error, also when an
\* earlier call on the same reader failed.
C9_TrueIffNoError ==
    /\ ParseDone => (wk.ret <=> rd.error = OK)
    /\ WktDone => (wk.ret <=> rd.error = NoError)

C9_Witness ==
    /\ WktDone
    /\ wk.prev # NoError
    /\ wk.ret
    /\ rd.error = NoError

\* collections in which a member, or a member of a member, has other flags
WktMixedInputs ==
    UNION {{WColl(f, <<a>>) : a \in WktOther(f)}
           \cup {WColl(f, <<a, b>>) : a \in WktOther(f), b \in WktMembers(f)}
           \cup {WColl(f, <<b, a>>) : a \in WktOther(f), b \in WktMembers(f)}
           : f \in WktFlags}

\* C10: when wkt_reader::try_parse returns true every node of the tree has the
\* has_z and has_m of the root, and an input in which a nested geometry's Z/M
\* suffix differs from the root's returns false.
C10_UniformFlags ==
    /\ (WktDone /\ wk.ret) =>
          \A n \in DOMAIN heap : heap[n].z = heap[1].z /\ heap[n].m = heap[1].m
    /\ (WktDone /\ WktText \in WktMixedInputs) => ~wk.ret

C10_Witness ==
    /\ WktDone
    /\ wk.ret
    /\ heap[1].type = GEOMETRY_COLLECTION
    /\ heap[1].m /\ ~heap[1].z
    /\ heap[1].size = 2
    /\ \E n \in DOMAIN heap : heap[n].type = GEOMETRY_COLLECTION /\ heap[n].prnt = 1

C10_WitnessRejected ==
    /\ WktDone
    /\ WktText \in WktMixedInputs
    /\ rd.error = MixedError
    /\ heap[1].size = 2

\* C11: for a character range [buf, end) with no terminator behind it,
\* wkt_reader::try_parse never consumes a character at or beyond end: its
\* position stays within buf <= pos <= end after every token, match_number
\* included, also when end falls inside or right after a run of digits.
C11_WktInBounds == wk.mode = "wkt" => (0 <= rd.pos /\ rd.pos <= rd.end)

\* ========================================================= ops on geometries
\* In this part a vertex array is the sequence of its doubles, vertex after
\* vertex: x, y, then z and m as flagged.  The doubles are small integers, on
\* which the arithmetic of the code is exact.
Abs(x) == IF x < 0 THEN 0 - x ELSE x

\* the number of doubles of a vertex of g
Stride(g) == 2 + B2N(g.z) + B2N(g.m)

\* the x and the y of vertex i (from 0) of g
VX(g, i) == g.verts[i * Stride(g) + 1]

VY(g, i) == g.verts[i * Stride(g) + 2]

\* A POINT or LINESTRING node as the readers leave it: set_vertex_array(vs, n).
VertexNode(type, has_z, has_m, vs) ==
    [NewGeometry(type, has_z, has_m) EXCEPT
        !.size = Len(vs) \div (2 + B2N(has_z) + B2N(has_m)),
        !.data = ArrayPtr, !.verts = vs]

\* A description of a geometry: kind, flags, doubles of a leaf, parts.
Desc(type, has_z, has_m, vs, ps) == [t |-> type, z |-> has_z, m |-> has_m, v |-> vs, ps |-> ps]

\* The tree the readers build for a description, appended to h below parent p:
\* the node is allocated and appended to its parent, then its parts are read.
RECURSIVE Put(_, _, _)
Put(h, p, d) ==
    LET n == Len(h) + 1
        node == IF d.t \in {POINT, LINESTRING} THEN VertexNode(d.t, d.z, d.m, d.v)
                ELSE NewGeometry(d.t, d.z, d.m)
        RECURSIVE PutParts(_, _)
        PutParts(h2, ps) ==
            IF ps = <<>> THEN h2 ELSE PutParts(Put(h2, n, Head(ps)), Tail(ps))
        Linked(h1) == IF p = NULL THEN h1 ELSE AppendPart(h1, p, n)
    IN  PutParts(Linked(Append(h, node)), d.ps)

\* No call of an operation made yet: fn names the operation, arg holds the
\* arguments that are not geometries, res what it returned.
NoOpsCall == [mode |-> "ops", pc |-> "idle", fn |-> "none", arg |-> <<>>, res |-> 0]

OpsDone(fn) == wk.mode = "ops" /\ wk.pc = "done" /\ wk.fn = fn

\* ------------------------------------------------------------ ops::get_area
\* vertex_array_signed_area.  The vertices of the inputs are even, so the sum
\* is even and area * 0.5 is exact.
vertex_array_signed_area(g) ==
    IF g.size < 3 THEN 0
    ELSE Sum([i \in 1..(g.size - 2) |->
                 (VX(g, i) - VX(g, 0)) * (VY(g, i - 1) - VY(g, i + 1))]) \div 2

\* visit_polygons: the POLYGON nodes below geom in the order of the callbacks
RECURSIVE VisitPolygons(_, _, _, _)
VisitPolygons(h, root, part, phase) ==
    IF phase = "s"
    THEN IF h[part].type = POLYGON
         THEN <<part>> \o VisitPolygons(h, root, part, "a")
         ELSE IF h[part].type \in {MULTI_POLYGON, GEOMETRY_COLLECTION} /\ ~is_empty(h[part])
         THEN VisitPolygons(h, root, get_first_part(h, part), "s")
         ELSE VisitPolygons(h, root, part, "a")
    ELSE IF h[part].prnt = root THEN <<>>
         ELSE IF part # get_last_part(h, h[part].prnt)
         THEN VisitPolygons(h, root, h[part].next, "s")
         ELSE VisitPolygons(h, root, h[part].prnt, "a")

\* the callback of get_area: the first ring counts, the others are taken off
PolygonArea(h, p) ==
    LET rings == ChildList(h, p)
    IN  IF get_last_part(h, p) = NULL THEN 0
        ELSE Sum([i \in 1..Len(rings) |->
                     IF i = 1 THEN Abs(vertex_array_signed_area(h[rings[i]]))
                     ELSE 0 - Abs(vertex_array_signed_area(h[rings[i]]))])

\* ops::get_area
get_area(h, n) ==
    LET polys == VisitPolygons(h, h[n].prnt, n, "s")
    IN  Sum([i \in 1..Len(polys) |-> PolygonArea(h, polys[i])])

\* closed rings with even vertices: triangles and squares of two sizes and
\* both orientations, and a ring of two vertices
Ring(vs) == Desc(LINESTRING, FALSE, FALSE, vs, <<>>)

AreaRings ==
    {Ring(<<0, 0, 2, 0, 2, 2, 0, 0>>), Ring(<<0, 0, 2, 2, 2, 0, 0, 0>>),
     Ring(<<0, 0, 4, 0, 4, 4, 0, 4, 0, 0>>), Ring(<<0, 0, 0, 4, 4, 4, 4, 0, 0, 0>>),
     Ring(<<6, 6, 8, 6, 8, 8, 6, 8, 6, 6>>), Ring(<<0, 0, 2, 2>>)}

Polygon(rings) == Desc(POLYGON, FALSE, FALSE, <<>>, rings)

AreaPolygons ==
    {Polygon(<<>>)} \cup {Polygon(<<a>>) : a \in AreaRings}
    \cup {Polygon(<<a, b>>) : a \in AreaRings, b \in AreaRings}
    \cup {Polygon(<<a, b, b>>) : a \in AreaRings, b \in AreaRings}

\* polygons alone, in a MULTI_POLYGON and in a collection beside a point
AreaInputs ==
    AreaPolygons
    \cup {Desc(MULTI_POLYGON, FALSE, FALSE, <<>>, <<a, Polygon(<<b>>)>>) :
             a \in AreaPolygons, b \in AreaRings}
    \cup {Desc(GEOMETRY_COLLECTION, FALSE, FALSE, <<>>,
               <<Desc(POINT, FALSE, FALSE, <<2, 2>>, <<>>), a>>) : a \in AreaPolygons}

InitOps(trees, args) ==
    /\ heap \in trees
    /\ nalloc = 0
    /\ kids = <<>>
    /\ op = "idle"
    /\ fp = NoFilter
    /\ vp = NoVisit
    /\ rd = NewReader
    /\ wk \in {[NoOpsCall EXCEPT !.arg = a] : a \in args}

InitArea == InitOps({Put(<<>>, NULL, d) : d \in AreaInputs}, {<<>>})

\* ops::get_area(geom)
GetArea ==
    /\ wk.pc = "idle"
    /\ wk' = [wk EXCEPT !.pc = "done", !.fn = "get_area", !.res = get_area(heap, 1)]
    /\ UNCHANGED <<heap, nalloc, kids, op, fp, vp, rd>>

SpecArea == InitArea /\ [][GetArea]_vars

\* C12: ops::get_area(g) >= 0 for every geometry tree the readers can
\* produce: polygons with any number of hole rings of any size, position and
\* orientation.
C12_AreaNonNegative == OpsDone("get_area") => wk.res >= 0

\* ------------------------------------------------------------ vertex_in_ring
\* the largest coordinate of the vertices tried
MaxCoord == 2

\* point_in_polygon_result
PIP_INVALID == "INVALID"
INTERIOR == "INTERIOR"
EXTERIOR == "EXTERIOR"
BOUNDARY == "BOUNDARY"

\* raycast_result
RAY_NONE == "NONE"
RAY_CROSS == "CROSS"
RAY_BOUNDARY == "BOUNDARY"

\* geometry::get_vertex_xy
get_vertex_xy(g, i) == [x |-> VX(g, i), y |-> VY(g, i)]

\* (det > 0) - (det < 0)
Sign(det) == IF det > 0 THEN 1 ELSE IF det < 0 THEN 0 - 1 ELSE 0

\* orient2d_fast
orient2d_fast(p, q, r) == Sign((p.x - r.x) * (q.y - r.y) - (p.y - r.y) * (q.x - r.x))

\* raycast_fast
raycast_fast(prev, next, vert) ==
    IF prev.x < vert.x /\ next.x < vert.x THEN RAY_NONE
    ELSE IF next.x = vert.x /\ next.y = vert.y THEN RAY_BOUNDARY
    ELSE IF prev.y = vert.y /\ next.y = vert.y
    THEN IF vert.x >= (IF prev.x > next.x THEN next.x ELSE prev.x)
            /\ vert.x <= (IF prev.x > next.x THEN prev.x ELSE next.x)
         THEN RAY_BOUNDARY
         ELSE RAY_NONE
    ELSE IF (prev.y > vert.y /\ next.y <= vert.y) \/ (next.y > vert.y /\ prev.y <= vert.y)
    THEN LET Oriented(sign) ==
                 IF sign = 0 THEN RAY_BOUNDARY
                 ELSE IF (IF next.y < prev.y THEN 0 - sign ELSE sign) > 0 THEN RAY_CROSS
                 ELSE RAY_NONE
         IN  Oriented(orient2d_fast(prev, next, vert))
    ELSE RAY_NONE

\* The loop of vertex_in_ring over the segments from vertex i on.
RECURSIVE RingLoop(_, _, _, _)
RingLoop(vert, g, i, crossings) ==
    IF i >= g.size
    THEN IF crossings % 2 = 0 THEN EXTERIOR ELSE INTERIOR
    ELSE LET Cast(c) ==
                 IF c = RAY_BOUNDARY THEN BOUNDARY
                 ELSE RingLoop(vert, g, i + 1, crossings + (IF c = RAY_CROSS THEN 1 ELSE 0))
         IN  Cast(raycast_fast(get_vertex_xy(g, i - 1), get_vertex_xy(g, i), vert))

\* --------------------------------------------------------- prepared_geometry
\* prepared_index::NODE_SIZE
NODE_SIZE == 32

\* geometry::is_prepared: the flag that only prepared_geometry::build sets
is_prepared(g) == "prepared" \in DOMAIN g /\ g.prepared

\* a prepared_index with no level
NoIndex == [level_array |-> <<>>, level_count |-> 0, items_count |-> 0]

\* prepared_geometry::prepared_geometry(): a geometry and an index
PreparedGeometry ==
    [next |-> NULL, prnt |-> NULL, type |-> INVALID, z |-> FALSE, m |-> FALSE,
     size |-> 0, data |-> NULL, verts |-> <<>>, prepared |-> FALSE, index |-> NoIndex]

\* the box around the vertices beg .. end - 1 of g
VertexBox(g, beg, end) ==
    LET Least(S) == CHOOSE e \in S : \A o \in S : e <= o
        Most(S) == CHOOSE e \in S : \A o \in S : e >= o
        Around(xs, ys) == [min |-> [x |-> Least(xs), y |-> Least(ys)],
                           max |-> [x |-> Most(xs), y |-> Most(ys)]]
    IN  Around({VX(g, j) : j \in beg..(end - 1)}, {VY(g, j) : j \in beg..(end - 1)})

\* prepared_index::MAX_DEPTH
MAX_DEPTH == 8

\* A uint32_t is held by its two 16-bit halves where it may exceed the whole
\* numbers of the model.
Halves(n) == [hi |-> n \div 65536, lo |-> n % 65536]

\* a + b in uint32_t: the carry out of the upper half is lost
U32Add(a, b) ==
    LET K(lo) == [hi |-> (a.hi + b.hi + lo \div 65536) % 65536, lo |-> lo % 65536]
    IN  K(a.lo + b.lo)

\* a / b in uint32_t, for b a power of two up to 65536
U32Div(a, b) == a.hi * (65536 \div b) + a.lo \div b

\* std::ceil(a / b) on whole numbers
Ceil(a, b) == (a + b - 1) \div b

\* the loop of build that fills layer_bound from layer k on: each layer is
\* ceil(count / NODE_SIZE^k), the last one the first that is at most 1
RECURSIVE LayerLoop(_, _)
LayerLoop(count, k) ==
    LET K(bound) == IF bound <= 1 THEN <<bound>> ELSE <<bound>> \o LayerLoop(count, k + 1)
    IN  K(Ceil(count, NODE_SIZE ^ k))

\* layer_bound after std::reverse, for the vertex count of the geometry:
\* count = (vertex_count + NODE_SIZE - 1) / NODE_SIZE in uint32_t
layer_bound(vertex_count) ==
    Rev(LayerLoop(U32Div(U32Add(vertex_count, Halves(NODE_SIZE - 1)), NODE_SIZE), 0))

\* the box around the boxes beg .. end - 1 (from 0) of the level prev
BoxAround(prev, beg, end) ==
    LET Least(S) == CHOOSE e \in S : \A o \in S : e <= o
        Most(S) == CHOOSE e \in S : \A o \in S : e >= o
    IN  [min |-> [x |-> Least({prev[k + 1].min.x : k \in beg..(end - 1)}),
                  y |-> Least({prev[k + 1].min.y : k \in beg..(end - 1)})],
         max |-> [x |-> Most({prev[k + 1].max.x : k \in beg..(end - 1)}),
                  y |-> Most({prev[k + 1].max.y : k \in beg..(end - 1)})]]

\* the lower layer: box i is around the vertices from i * NODE_SIZE to
\* min(beg + NODE_SIZE + 1, vertex_count)
LeafLevel(g, entry_count) ==
    [e \in 1..entry_count |->
        VertexBox(g, (e - 1) * NODE_SIZE,
                  IF (e - 1) * NODE_SIZE + NODE_SIZE + 1 < g.size
                  THEN (e - 1) * NODE_SIZE + NODE_SIZE + 1 ELSE g.size)]

\* an upper layer over the layer prev
UpperLevel(prev, entry_count) ==
    [e \in 1..entry_count |->
        BoxAround(prev, (e - 1) * NODE_SIZE,
                  IF (e - 1) * NODE_SIZE + NODE_SIZE < Len(prev)
                  THEN (e - 1) * NODE_SIZE + NODE_SIZE ELSE Len(prev))]

\* the upper layers, filled from layer i (from 1) up to the first; levels
\* holds the layers below
RECURSIVE FillLevels(_, _, _)
FillLevels(bounds, i, levels) ==
    IF i = 0 THEN levels
    ELSE FillLevels(bounds, i - 1, <<UpperLevel(levels[1], bounds[i])>> \o levels)

\* prepared_geometry::build
build(g) ==
    IF g.type # LINESTRING \/ g.size = 0 THEN g
    ELSE LET K(bounds) ==
                 [g EXCEPT
                     !.index = [level_array |->
                                    FillLevels(bounds, Len(bounds) - 1,
                                               <<LeafLevel(g, bounds[Len(bounds)])>>),
                                level_count |-> Len(bounds), items_count |-> g.size],
                     !.prepared = TRUE]
         IN  K(layer_bound(Halves(g.size)))

\* The segments of a leaf entry in prepared_geometry::contains, from vertex i.
RECURSIVE ContainsLoop(_, _, _, _, _)
ContainsLoop(vert, g, i, end_idx, crossings) ==
    IF i >= end_idx THEN [crossings |-> crossings, boundary |-> FALSE]
    ELSE LET Cast(c) ==
                 IF c = RAY_BOUNDARY THEN [crossings |-> crossings, boundary |-> TRUE]
                 ELSE ContainsLoop(vert, g, i + 1, end_idx,
                                   crossings + (IF c = RAY_CROSS THEN 1 ELSE 0))
         IN  Cast(raycast_fast(get_vertex_xy(g, i - 1), get_vertex_xy(g, i), vert))

\* the leaf entry without the vertex it shares with the next entry
EndIdx_NoOverlap(g, entry) ==
    IF entry * NODE_SIZE + NODE_SIZE < g.index.items_count
    THEN entry * NODE_SIZE + NODE_SIZE ELSE g.index.items_count

\* end_idx of a leaf entry: math::min(beg_idx + NODE_SIZE + 1, items_count)
EndIdx(g, entry) ==
    IF entry * NODE_SIZE + NODE_SIZE + 1 < g.index.items_count
    THEN entry * NODE_SIZE + NODE_SIZE + 1 ELSE g.index.items_count

\* prepared_geometry::contains from the head of its outer loop, at entry
\* stack[depth] of level depth, and ContainsAscend from the head of its inner
\* loop.  leaves lists the leaf entries whose segments were cast, in order;
\* result is what the call returns.
RECURSIVE ContainsWalk(_, _, _, _, _, _)
RECURSIVE ContainsAscend(_, _, _, _, _, _)
ContainsWalk(g, vert, depth, stack, crossings, leaves) ==
    LET Leaf(entry, c) ==
            IF c.boundary THEN [result |-> BOUNDARY, leaves |-> Append(leaves, entry)]
            ELSE ContainsAscend(g, vert, depth, stack, c.crossings, Append(leaves, entry))
        K(entry, box) ==
            IF box.min.y <= vert.y /\ box.max.y >= vert.y
            THEN IF depth # g.index.level_count - 1
                 THEN ContainsWalk(g, vert, depth + 1,
                                   [stack EXCEPT ![depth + 2] = entry * NODE_SIZE],
                                   crossings, leaves)
                 ELSE Leaf(entry,
                           ContainsLoop(vert, g, entry * NODE_SIZE + 1, EndIdx(g, entry),
                                        crossings))
            ELSE ContainsAscend(g, vert, depth, stack, crossings, leaves)
    IN  K(stack[depth + 1], g.index.level_array[depth + 1][stack[depth + 1] + 1])

ContainsAscend(g, vert, depth, stack, crossings, leaves) ==
    IF depth = 0
    THEN [result |-> IF crossings % 2 = 0 THEN EXTERIOR ELSE INTERIOR, leaves |-> leaves]
    ELSE LET K(node_end, levl_end) ==
                 IF stack[depth + 1] # (IF node_end < levl_end THEN node_end ELSE levl_end)
                 THEN ContainsWalk(g, vert, depth, [stack EXCEPT ![depth + 1] = @ + 1],
                                   crossings, leaves)
                 ELSE ContainsAscend(g, vert, depth - 1, stack, crossings, leaves)
         IN  K((stack[depth] + 1) * NODE_SIZE - 1, Len(g.index.level_array[depth + 1]) - 1)

\* prepared_geometry::contains: the stack is MAX_DEPTH zeros, depth 0
ContainsTrace(g, vert) ==
    IF ~is_prepared(g) THEN [result |-> PIP_INVALID, leaves |-> <<>>]
    ELSE ContainsWalk(g, vert, 0, [k \in 1..MAX_DEPTH |-> 0], 0, <<>>)

contains(g, vert) == ContainsTrace(g, vert).result

\* vertex_in_ring
vertex_in_ring(vert, g) ==
    IF g.size < 3 THEN PIP_INVALID
    ELSE IF is_prepared(g) THEN contains(g, vert)
    ELSE RingLoop(vert, g, 1, 0)

GridPoints == {<<x, y>> : x \in 0..MaxCoord, y \in 0..MaxCoord}

\* rings of two and three vertices, and closed rings of four and five
RingInputs ==
    {a \o b : a \in GridPoints, b \in GridPoints}
    \cup {a \o b \o c : a \in GridPoints, b \in GridPoints, c \in GridPoints}
    \cup {a \o b \o c \o a : a \in GridPoints, b \in GridPoints, c \in GridPoints}
    \cup {a \o b \o c \o e \o a :
             a \in GridPoints, b \in GridPoints, c \in GridPoints, e \in GridPoints}

\* the vertices of an XY vertex array in reverse order
ReverseXY(vs) ==
    [i \in 1..Len(vs) |->
        vs[Len(vs) - 2 * ((i - 1) \div 2) - 1 + ((i - 1) % 2)]]

\* a ring, and beside it the ring with its vertex order reversed
InitRing ==
    InitOps({<<VertexNode(LINESTRING, FALSE, FALSE, vs),
               VertexNode(LINESTRING, FALSE, FALSE, ReverseXY(vs))>> : vs \in RingInputs},
            {[x |-> p[1], y |-> p[2]] : p \in GridPoints})

\* vertex_in_ring(vert, ring) on the ring and on the reversed ring
VertexInRing ==
    /\ wk.pc = "idle"
    /\ wk' = [wk EXCEPT !.pc = "done", !.fn = "vertex_in_ring",
                        !.res = <<vertex_in_ring(wk.arg, heap[1]),
                                  vertex_in_ring(wk.arg, heap[2])>>]
    /\ UNCHANGED <<heap, nalloc, kids, op, fp, vp, rd>>

SpecRing == InitRing /\ [][VertexInRing]_vars

\* C16: for every ring (a LINESTRING used as a polygon ring) and every vertex,
\* vertex_in_ring returns exactly one of INTERIOR, EXTERIOR and BOUNDARY, and
\* returns the same for the ring with its vertex order reversed.
C16_RingTrichotomy ==
    OpsDone("vertex_in_ring") =>
        /\ wk.res[1] \in {INTERIOR, EXTERIOR, BOUNDARY}
        /\ wk.res[1] = wk.res[2]

\* the same, for closed rings of at least three vertices
C16_ClosedRings ==
    (OpsDone("vertex_in_ring") /\ heap[1].size >= 3
        /\ get_vertex_xy(heap[1], 0) = get_vertex_xy(heap[1], heap[1].size - 1)) =>
        /\ wk.res[1] \in {INTERIOR, EXTERIOR, BOUNDARY}
        /\ wk.res[1] = wk.res[2]

\* ================================================================ distance
\* The coordinates are small integers and a double is taken as the real it
\* stands for.  A distance is held by its square, the fraction n / d in lowest
\* terms: the square root is increasing, so that the minimum and the
\* comparisons of distances are those of their squares.  Infinity is 1 / 0.
Infinity == [n |-> 1, d |-> 0]

RECURSIVE GCD(_, _)
GCD(a, b) == IF b = 0 THEN a ELSE GCD(b, a % b)

Fraction(n, d) ==
    LET Reduced(g) == [n |-> n \div g, d |-> d \div g]
    IN  Reduced(GCD(n, d))

NoDistance == Fraction(0, 1)

\* a < b on distances
DistLess(a, b) == a.n * b.d < b.n * a.d

\* math::min
min(a, b) == IF ~DistLess(b, a) THEN a ELSE b

\* math::clamp on integers
clamp(value, min_value, max_value) ==
    IF value < min_value THEN min_value
    ELSE IF value > max_value THEN max_value ELSE value

\* the distance of p to the point (q.x / den, q.y / den)
DistanceOver(p, q, den) ==
    Fraction((p.x * den - q.x) * (p.x * den - q.x) + (p.y * den - q.y) * (p.y * den - q.y),
             den * den)

\* vertex_distance_squared
vertex_distance_squared(lhs, rhs) ==
    (lhs.x - rhs.x) * (lhs.x - rhs.x) + (lhs.y - rhs.y) * (lhs.y - rhs.y)

\* vertex_distance
vertex_distance(lhs, rhs) == DistanceOver(lhs, rhs, 1)

\* vertex_segment_distance: t = Dot / l2 is clamped to [0, 1], the
\* intersection is v + t * (w - v)
vertex_segment_distance(p, v, w) ==
    LET Project(l2, t) ==
            DistanceOver(p, [x |-> v.x * l2 + t * (w.x - v.x),
                             y |-> v.y * l2 + t * (w.y - v.y)], l2)
        Clamped(l2) ==
            Project(l2, clamp((p.x - v.x) * (w.x - v.x) + (p.y - v.y) * (w.y - v.y), 0, l2))
        Squared(l2) == IF l2 = 0 THEN vertex_distance(p, v) ELSE Clamped(l2)
    IN  Squared(vertex_distance_squared(v, w))

\* the distance between the closest endpoints
EndpointDistance(a, b, c, d) ==
    min(min(vertex_segment_distance(a, c, d), vertex_segment_distance(b, c, d)),
        min(vertex_segment_distance(c, a, b), vertex_segment_distance(d, a, b)))

\* segment_segment_distance: parallel segments, and segments whose r_norm =
\* r / denominator or s_norm = s / denominator is outside [0, 1], are as far
\* apart as their closest endpoints
segment_segment_distance(a, b, c, d) ==
    IF a.x = b.x /\ a.y = b.y THEN vertex_segment_distance(a, c, d)
    ELSE IF c.x = d.x /\ c.y = d.y THEN vertex_segment_distance(c, a, b)
    ELSE LET Crossing(denominator, r, s) ==
                 IF denominator = 0
                    \/ r * denominator < 0 \/ r * denominator > denominator * denominator
                    \/ s * denominator < 0 \/ s * denominator > denominator * denominator
                 THEN EndpointDistance(a, b, c, d)
                 ELSE NoDistance
         IN  Crossing((b.x - a.x) * (d.y - c.y) - (b.y - a.y) * (d.x - c.x),
                      (a.y - c.y) * (d.x - c.x) - (a.x - c.x) * (d.y - c.y),
                      (a.y - c.y) * (b.x - a.x) - (a.x - c.x) * (b.y - a.y))

\* The loop over the segments of g from vertex i to vertex end - 1:
\* result.set(vertex_segment_distance(p, prev, next)) for each.
RECURSIVE SegmentsLoop(_, _, _, _, _)
SegmentsLoop(p, g, i, end, result) ==
    IF i >= end THEN result
    ELSE SegmentsLoop(p, g, i + 1, end,
                      min(result, vertex_segment_distance(p, get_vertex_xy(g, i - 1),
                                                          get_vertex_xy(g, i))))

\* the end index of the only leaf entry: min(beg_idx + NODE_SIZE + 1, items_count)
LeafEnd(g) == IF NODE_SIZE + 1 < g.index.items_count THEN NODE_SIZE + 1 ELSE g.index.items_count

\* prepared_geometry::try_get_distance(vertex, distance), with
\* try_get_distance_recursive(0, 0, ...) on an index of one level: level 0 is
\* the leaf level.  ok is what it returns.
try_get_distance(g, vertex) ==
    IF ~is_prepared(g) THEN [ok |-> FALSE, distance |-> Infinity]
    ELSE IF 0 >= LeafEnd(g) THEN [ok |-> FALSE, distance |-> Infinity]
    ELSE [ok |-> TRUE, distance |-> SegmentsLoop(vertex, g, 1, LeafEnd(g), Infinity)]

\* point_segment_dist_sq; a squared distance is held as the distance is
point_segment_dist_sq(p, a, b) ==
    LET Project(ab_len_sq, t) ==
            DistanceOver(p, [x |-> a.x * ab_len_sq + (b.x - a.x) * t,
                             y |-> a.y * ab_len_sq + (b.y - a.y) * t], ab_len_sq)
        Squared(ab_len_sq) ==
            IF ab_len_sq = 0 THEN Fraction(vertex_distance_squared(p, a), 1)
            ELSE Project(ab_len_sq,
                         clamp((p.x - a.x) * (b.x - a.x) + (p.y - a.y) * (b.y - a.y),
                               0, ab_len_sq))
    IN  Squared(vertex_distance_squared(a, b))

Least2(a, b) == IF b < a THEN b ELSE a

\* point_on_segment(p, q, r): q is in the box of p and r
point_on_segment(p, q, r) ==
    /\ q.x >= Least2(p.x, r.x) /\ q.x <= Max(p.x, r.x)
    /\ q.y >= Least2(p.y, r.y) /\ q.y <= Max(p.y, r.y)

\* segment_intersects
segment_intersects(a1, a2, b1, b2) ==
    LET a_is_point == a1.x = a2.x /\ a1.y = a2.y
        b_is_point == b1.x = b2.x /\ b1.y = b2.y
        Oriented(o1, o2, o3, o4) ==
            \/ o1 # o2 /\ o3 # o4
            \/ o1 = 0 /\ point_on_segment(a1, b1, b2)
            \/ o2 = 0 /\ point_on_segment(a2, b1, b2)
            \/ o3 = 0 /\ point_on_segment(b1, a1, a2)
            \/ o4 = 0 /\ point_on_segment(b2, a1, a2)
    IN  IF a_is_point /\ b_is_point THEN a1.x = b1.x /\ a1.y = b1.y
        ELSE IF a_is_point THEN point_on_segment(a1, b1, b2)
        ELSE IF b_is_point THEN point_on_segment(b1, a1, a2)
        ELSE Oriented(orient2d_fast(a1, a2, b1), orient2d_fast(a1, a2, b2),
                      orient2d_fast(b1, b2, a1), orient2d_fast(b1, b2, a2))

\* segment_segment_dist_sq
segment_segment_dist_sq(a1, a2, b1, b2) ==
    IF segment_intersects(a1, a2, b1, b2) THEN NoDistance
    ELSE min(min(point_segment_dist_sq(a1, b1, b2), point_segment_dist_sq(a2, b1, b2)),
             min(point_segment_dist_sq(b1, a1, a2), point_segment_dist_sq(b2, a1, a2)))

\* the box of the segment from prev to next
SegmentBox(prev, next) ==
    [min |-> [x |-> Least2(prev.x, next.x), y |-> Least2(prev.y, next.y)],
     max |-> [x |-> Max(prev.x, next.x), y |-> Max(prev.y, next.y)]]

\* extent_xy::distance_to_sq
distance_to_sq(box, other) ==
    LET Squares(dx, dy) == Fraction(dx * dx + dy * dy, 1)
    IN  Squares(Max(0, Max(box.min.x - other.max.x, other.min.x - box.max.x)),
                Max(0, Max(box.min.y - other.max.y, other.min.y - box.max.y)))

\* The inner loop of the leaf case of try_get_prepared_distance_lines, over
\* the segments of rhs from vertex j: st holds min_dist and found_any.
RECURSIVE PreparedInner(_, _, _, _, _, _)
PreparedInner(lhs_prev, lhs_next, rhs, j, rhs_end, st) ==
    IF j >= rhs_end THEN st
    ELSE LET Closer(dist) ==
                 IF DistLess(dist, st.min_dist)
                 THEN [min_dist |-> dist, found_any |-> TRUE] ELSE st
             Segment(rhs_prev, rhs_next) ==
                 IF rhs_prev.x = rhs_next.x /\ rhs_prev.y = rhs_next.y THEN st
                 ELSE IF DistLess(st.min_dist,
                                  distance_to_sq(SegmentBox(rhs_prev, rhs_next),
                                                 SegmentBox(lhs_prev, lhs_next)))
                 THEN st
                 ELSE Closer(segment_segment_dist_sq(lhs_prev, lhs_next, rhs_prev, rhs_next))
         IN  PreparedInner(lhs_prev, lhs_next, rhs, j + 1, rhs_end,
                           Segment(get_vertex_xy(rhs, j - 1), get_vertex_xy(rhs, j)))

\* The outer loop of the leaf case, over the segments of lhs from vertex i.
RECURSIVE PreparedOuter(_, _, _, _, _)
PreparedOuter(lhs, rhs, i, lhs_end, st) ==
    IF i >= lhs_end THEN st
    ELSE LET Segment(lhs_prev, lhs_next) ==
                 IF lhs_prev.x = lhs_next.x /\ lhs_prev.y = lhs_next.y THEN st
                 ELSE IF DistLess(st.min_dist,
                                  distance_to_sq(SegmentBox(lhs_prev, lhs_next),
                                                 rhs.index.level_array[1][1]))
                 THEN st
                 ELSE PreparedInner(lhs_prev, lhs_next, rhs, 1, LeafEnd(rhs), st)
         IN  PreparedOuter(lhs, rhs, i + 1, lhs_end,
                           Segment(get_vertex_xy(lhs, i - 1), get_vertex_xy(lhs, i)))

\* try_get_prepared_distance_lines on two indexes of one level: the root pair
\* is the only pair of the queue, and both its entries are leaves.
try_get_prepared_distance_lines(lhs, rhs) ==
    IF is_empty(lhs) \/ is_empty(rhs) THEN [ok |-> FALSE, distance |-> Infinity]
    ELSE LET Found(st) == [ok |-> st.found_any, distance |-> st.min_dist]
         IN  Found(PreparedOuter(lhs, rhs, 1, LeafEnd(lhs),
                                 [min_dist |-> Infinity, found_any |-> FALSE]))

\* prepared_geometry::make(allocator, geom, result): node n is the result,
\* src is geom.  The parts are made one by one and appended, then the node is
\* built.
RECURSIVE make(_, _, _)
make(h, n, src) ==
    LET RECURSIVE MakeParts(_, _)
        MakeParts(h2, ps) ==
            IF ps = <<>> THEN h2
            ELSE MakeParts(AppendPart(make(Append(h2, PreparedGeometry), Len(h2) + 1, Head(ps)),
                                      n, Len(h2) + 1),
                           Tail(ps))
        Filled(h1) ==
            IF ~is_multi_part(h[src])
            THEN [h1 EXCEPT ![n].size = h[src].size, ![n].data = h[src].data,
                            ![n].verts = h[src].verts]
            ELSE IF get_last_part(h, src) # NULL THEN MakeParts(h1, ChildList(h, src))
            ELSE h1
        Built(h3) == [h3 EXCEPT ![n] = build(@)]
    IN  Built(Filled([h EXCEPT ![n].z = h[src].z, ![n].m = h[src].m,
                               ![n].type = h[src].type]))

\* ------------------------------------------------------------ distance cases
\* Each case is given the heap, its two geometries and distance_result; ok is
\* what it returns and result is distance_result after it.
Ret(ok, result) == [ok |-> ok, result |-> result]

\* the first vertex of a vertex array
FirstVertex(g) == get_vertex_xy(g, 0)

\* distance_point_point
distance_point_point(h, lhs, rhs, result) ==
    IF is_empty(h[lhs]) \/ is_empty(h[rhs]) THEN Ret(FALSE, result)
    ELSE Ret(TRUE, min(result, vertex_distance(FirstVertex(h[lhs]), FirstVertex(h[rhs]))))

\* distance_point_lines
distance_point_lines(h, lhs, rhs, result) ==
    IF is_empty(h[lhs]) \/ is_empty(h[rhs]) THEN Ret(FALSE, result)
    ELSE IF h[rhs].size = 1
    THEN Ret(TRUE, min(result, vertex_distance(FirstVertex(h[lhs]), FirstVertex(h[rhs]))))
    ELSE IF is_prepared(h[rhs])
    THEN LET Tried(t) == IF t.ok THEN Ret(TRUE, min(result, t.distance))
                         ELSE Ret(FALSE, result)
         IN  Tried(try_get_distance(h[rhs], FirstVertex(h[lhs])))
    ELSE Ret(TRUE, SegmentsLoop(FirstVertex(h[lhs]), h[rhs], 1, h[rhs].size, result))

\* the first of the rings that vert is not outside of, NULL when there is none
RECURSIVE RingAround(_, _, _)
RingAround(h, rings, vert) ==
    IF rings = <<>> THEN NULL
    ELSE IF vertex_in_ring(vert, h[Head(rings)]) # EXTERIOR THEN Head(rings)
    ELSE RingAround(h, Tail(rings), vert)

\* the rings after the shell: shell->get_next() up to the shell again
Holes(h, polyg) == Tail(ChildList(h, polyg))

\* distance_point_polyg
distance_point_polyg(h, lhs, rhs, result) ==
    IF is_empty(h[lhs]) \/ is_empty(h[rhs]) THEN Ret(FALSE, result)
    ELSE LET InHole(ring) ==
                 IF ring # NULL THEN distance_point_lines(h, lhs, ring, result)
                 ELSE Ret(TRUE, min(result, NoDistance))
             Located(loc) ==
                 IF loc = EXTERIOR
                 THEN distance_point_lines(h, lhs, get_first_part(h, rhs), result)
                 ELSE IF loc = INTERIOR
                 THEN InHole(RingAround(h, Holes(h, rhs), FirstVertex(h[lhs])))
                 ELSE Ret(TRUE, min(result, NoDistance))
         IN  Located(vertex_in_ring(FirstVertex(h[lhs]), h[get_first_part(h, rhs)]))

\* the loops of distance_lines_lines over the segments of both linestrings
RECURSIVE LinesInner(_, _, _, _, _)
LinesInner(lhs_prev, lhs_next, g, j, result) ==
    IF j >= g.size THEN result
    ELSE LinesInner(lhs_prev, lhs_next, g, j + 1,
                    min(result, segment_segment_distance(lhs_prev, lhs_next,
                                                         get_vertex_xy(g, j - 1),
                                                         get_vertex_xy(g, j))))

RECURSIVE LinesOuter(_, _, _, _)
LinesOuter(l, r, i, result) ==
    IF i >= l.size THEN result
    ELSE LinesOuter(l, r, i + 1,
                    LinesInner(get_vertex_xy(l, i - 1), get_vertex_xy(l, i), r, 1, result))

\* distance_lines_lines
distance_lines_lines(h, lhs, rhs, result) ==
    IF is_empty(h[lhs]) \/ is_empty(h[rhs]) THEN Ret(FALSE, result)
    ELSE IF is_prepared(h[lhs]) /\ is_prepared(h[rhs])
    THEN LET Tried(t) == IF t.ok THEN Ret(TRUE, min(result, t.distance))
                         ELSE Ret(FALSE, result)
         IN  Tried(try_get_prepared_distance_lines(h[lhs], h[rhs]))
    ELSE IF h[lhs].size = 1 /\ h[rhs].size = 1
    THEN Ret(TRUE, min(result, vertex_distance(FirstVertex(h[lhs]), FirstVertex(h[rhs]))))
    ELSE IF h[lhs].size = 1
    THEN Ret(TRUE, SegmentsLoop(FirstVertex(h[lhs]), h[rhs], 1, h[rhs].size, result))
    ELSE IF h[rhs].size = 1
    THEN Ret(TRUE, SegmentsLoop(FirstVertex(h[rhs]), h[lhs], 1, h[lhs].size, result))
    ELSE Ret(TRUE, LinesOuter(h[lhs], h[rhs], 1, result))

\* The first loop of distance_lines_polyg: the distance to each ring, until
\* one is not found.
RECURSIVE LinesRings(_, _, _, _)
LinesRings(h, lhs, rings, result) ==
    IF rings = <<>> THEN Ret(TRUE, result)
    ELSE LET Measured(r) ==
                 IF ~r.ok THEN Ret(FALSE, r.result)
                 ELSE LinesRings(h, lhs, Tail(rings), r.result)
         IN  Measured(distance_lines_lines(h, lhs, Head(rings), result))

\* distance_lines_polyg
distance_lines_polyg(h, lhs, rhs, result) ==
    IF is_empty(h[lhs]) \/ is_empty(h[rhs]) THEN Ret(FALSE, result)
    ELSE IF vertex_in_ring(FirstVertex(h[lhs]), h[get_first_part(h, rhs)]) = EXTERIOR
    THEN distance_lines_lines(h, lhs, get_first_part(h, rhs), result)
    ELSE LET Measured(r) ==
                 IF ~r.ok THEN Ret(FALSE, r.result)
                 ELSE IF RingAround(h, Holes(h, rhs), FirstVertex(h[lhs])) # NULL THEN r
                 ELSE Ret(TRUE, min(r.result, NoDistance))
         IN  Measured(LinesRings(h, lhs, Holes(h, rhs), result))

\* distance_polyg_polyg
distance_polyg_polyg(h, lhs, rhs, result) ==
    IF is_empty(h[lhs]) \/ is_empty(h[rhs]) THEN Ret(FALSE, result)
    ELSE LET Shells(lhs_shell, rhs_shell) ==
                 LET InHoles(lhs_ring, rhs_ring) ==
                         IF lhs_ring # NULL
                         THEN distance_lines_lines(h, lhs_ring, rhs_shell, result)
                         ELSE IF rhs_ring # NULL
                         THEN distance_lines_lines(h, lhs_shell, rhs_ring, result)
                         ELSE Ret(TRUE, min(result, NoDistance))
                 IN  IF vertex_in_ring(FirstVertex(h[lhs_shell]), h[rhs_shell]) = EXTERIOR
                        /\ vertex_in_ring(FirstVertex(h[rhs_shell]), h[lhs_shell]) = EXTERIOR
                     THEN distance_lines_lines(h, lhs_shell, rhs_shell, result)
                     ELSE InHoles(RingAround(h, Holes(h, lhs), FirstVertex(h[rhs_shell])),
                                  RingAround(h, Holes(h, rhs), FirstVertex(h[lhs_shell])))
         IN  Shells(get_first_part(h, lhs), get_first_part(h, rhs))

\* distance_dispatch
distance_dispatch(h, lhs, rhs, result) ==
    LET Dispatch(l, r) ==
            IF l = POINT /\ r = POINT THEN distance_point_point(h, lhs, rhs, result)
            ELSE IF l = POINT /\ r = LINESTRING THEN distance_point_lines(h, lhs, rhs, result)
            ELSE IF l = POINT /\ r = POLYGON THEN distance_point_polyg(h, lhs, rhs, result)
            ELSE IF l = LINESTRING /\ r = POINT THEN distance_point_lines(h, rhs, lhs, result)
            ELSE IF l = LINESTRING /\ r = LINESTRING
            THEN distance_lines_lines(h, lhs, rhs, result)
            ELSE IF l = LINESTRING /\ r = POLYGON THEN distance_lines_polyg(h, lhs, rhs, result)
            ELSE IF l = POLYGON /\ r = POINT THEN distance_point_polyg(h, rhs, lhs, result)
            ELSE IF l = POLYGON /\ r = LINESTRING THEN distance_lines_polyg(h, rhs, lhs, result)
            ELSE IF l = POLYGON /\ r = POLYGON THEN distance_polyg_polyg(h, lhs, rhs, result)
            ELSE Ret(FALSE, result)
    IN  Dispatch(h[lhs].type, h[rhs].type)

\* visit_leaf_geometries run to its end: the leaves in the order of the callbacks
RECURSIVE VisitRun(_, _)
VisitRun(h, v) ==
    IF v.phase = "done" THEN v.log
    ELSE IF v.phase = "switch" THEN VisitRun(h, VisitSwitch(h, v))
    ELSE VisitRun(h, VisitAscend(h, v))

\* The callbacks of ops::get_euclidean_distance: every leaf of rhs_geom for
\* every leaf of lhs_geom.  acc holds found and distance_result.
RECURSIVE DistanceInner(_, _, _, _)
DistanceInner(h, lhs, rs, acc) ==
    IF rs = <<>> THEN acc
    ELSE LET Dispatched(r) ==
                 [found |-> acc.found \/ r.ok, result |-> r.result]
         IN  DistanceInner(h, lhs, Tail(rs),
                           Dispatched(distance_dispatch(h, lhs, Head(rs), acc.result)))

RECURSIVE DistanceOuter(_, _, _, _)
DistanceOuter(h, ls, rs, acc) ==
    IF ls = <<>> THEN acc
    ELSE DistanceOuter(h, Tail(ls), rs, DistanceInner(h, Head(ls), rs, acc))

\* ops::get_euclidean_distance: ret is what it returns, result is the distance
get_euclidean_distance(h, lhs_geom, rhs_geom) ==
    LET Returned(acc) == [ret |-> acc.found, result |-> acc.result]
    IN  Returned(DistanceOuter(h, VisitRun(h, VisitBegin(h, lhs_geom)),
                               VisitRun(h, VisitBegin(h, rhs_geom)),
                               [found |-> FALSE, result |-> Infinity]))

\* ------------------------------------------------- ops::get_euclidean_distance
\* the number of calls a run makes
MaxCalls == 2

Vertices(ps) == Desc(LINESTRING, FALSE, FALSE, ps, <<>>)

Point(ps) == Desc(POINT, FALSE, FALSE, ps, <<>>)

Several(type, ps) == Desc(type, FALSE, FALSE, <<>>, ps)

\* the ends of the linestrings tried
LineEnds == {<<0, 0>>, <<1, 0>>, <<2, 0>>, <<2, 2>>, <<1, 1>>}

\* an empty point and points inside, on and outside the rings below
DistancePoints == {Point(<<>>), Point(<<0, 0>>), Point(<<2, 2>>), Point(<<4, 1>>)}

\* an empty linestring and linestrings of one, two and three vertices, with
\* segments of no length among them
DistanceLines ==
    {Vertices(<<>>)} \cup {Vertices(a) : a \in LineEnds}
    \cup {Vertices(a \o b) : a \in LineEnds, b \in LineEnds}
    \cup {Vertices(<<0, 0, 2, 0, 2, 2>>), Vertices(<<1, 1, 1, 1, 2, 0>>)}

\* closed rings: two squares, one within the other, a triangle, a square
\* apart from them; and a ring of one vertex
DistanceRings ==
    {Vertices(<<0, 0, 4, 0, 4, 4, 0, 4, 0, 0>>), Vertices(<<1, 1, 3, 1, 3, 3, 1, 3, 1, 1>>),
     Vertices(<<0, 0, 2, 0, 0, 2, 0, 0>>), Vertices(<<3, 3, 4, 3, 4, 4, 3, 4, 3, 3>>),
     Vertices(<<2, 2>>)}

\* Polygons of no ring, of a shell, and of a shell and a hole, the hole
\* anywhere: the readers check no ring against another.  Every shell has a
\* vertex, since distance_polyg_polyg reads the first vertex of a shell
\* without asking for its count.
DistancePolygons ==
    {Polygon(<<>>)} \cup {Polygon(<<a>>) : a \in DistanceRings}
    \cup {Polygon(<<a, b>>) : a \in DistanceRings, b \in DistanceRings}

\* operands of several parts, empty parts among them
DistanceMulti ==
    {Several(MULTI_POINT, <<>>),
     Several(MULTI_POINT, <<Point(<<0, 0>>), Point(<<2, 2>>)>>),
     Several(MULTI_LINESTRING, <<Vertices(<<>>), Vertices(<<0, 0, 2, 0>>)>>),
     Several(MULTI_POLYGON, <<Polygon(<<Vertices(<<0, 0, 2, 0, 0, 2, 0, 0>>)>>),
                              Polygon(<<Vertices(<<3, 3, 4, 3, 4, 4, 3, 4, 3, 3>>)>>)>>),
     Several(GEOMETRY_COLLECTION,
             <<Several(MULTI_POINT, <<>>), Point(<<4, 1>>), Vertices(<<1, 0, 2, 0>>)>>),
     Several(GEOMETRY_COLLECTION,
             <<Point(<<>>),
               Several(GEOMETRY_COLLECTION,
                       <<Polygon(<<Vertices(<<1, 1, 3, 1, 3, 3, 1, 3, 1, 1>>)>>)>>)>>)}

DistanceInputs == DistancePoints \cup DistanceLines \cup DistancePolygons \cup DistanceMulti

\* the geometries of the heap that are no part of another, in the order of
\* their allocation: the two operands, and after them their prepared copies
Operands(h) == SelectSeq([n \in 1..Len(h) |-> n], LAMBDA n : h[n].prnt = NULL)

\* two geometries in one heap and no call made
InitDistance ==
    /\ heap \in {Put(Put(<<>>, NULL, a), NULL, b) : a \in DistanceInputs, b \in DistanceInputs}
    /\ nalloc = 0
    /\ kids = <<>>
    /\ op = "idle"
    /\ fp = NoFilter
    /\ vp = NoVisit
    /\ rd = NewReader
    /\ wk = [NoOpsCall EXCEPT !.res = {}]

\* prepared_geometry::make on both operands
MakePrepared ==
    /\ wk.mode = "ops"
    /\ Len(Operands(heap)) = 2
    /\ LET Prepare(h, src) == make(Append(h, PreparedGeometry), Len(h) + 1, src)
       IN  heap' = Prepare(Prepare(heap, Operands(heap)[1]), Operands(heap)[2])
    /\ UNCHANGED <<nalloc, kids, op, fp, vp, rd, wk>>

\* ops::get_euclidean_distance(lhs, rhs, result) on two of the operands, or on
\* two of their prepared copies; the call is kept with what it returned
GetEuclideanDistance ==
    /\ wk.mode = "ops"
    /\ Cardinality(wk.res) < MaxCalls
    /\ \E prepared \in {k \in BOOLEAN : k => Len(Operands(heap)) = 4}, lhs \in 1..2, rhs \in 1..2 :
          LET Called(r) ==
                  wk' = [wk EXCEPT !.pc = "done", !.fn = "get_euclidean_distance",
                                   !.res = @ \cup {[prepared |-> prepared, lhs |-> lhs,
                                                    rhs |-> rhs, ret |-> r.ret,
                                                    result |-> r.result]}]
              Offset == IF prepared THEN 2 ELSE 0
          IN  Called(get_euclidean_distance(heap, Operands(heap)[lhs + Offset],
                                            Operands(heap)[rhs + Offset]))
    /\ UNCHANGED <<heap, nalloc, kids, op, fp, vp, rd>>

SpecDistance == InitDistance /\ [][GetEuclideanDistance]_vars

NextPrepared == MakePrepared \/ GetEuclideanDistance

SpecPrepared == InitDistance /\ [][NextPrepared]_vars

\* a geometry with a leaf that is not empty
HasLeaf(h, n) == \E i \in DOMAIN VisitRun(h, VisitBegin(h, n)) :
                     ~is_empty(h[VisitRun(h, VisitBegin(h, n))[i]])

\* C13: for all geometries a and b, get_euclidean_distance(a, b) and
\* get_euclidean_distance(b, a) return the same found flag and, when found,
\* the same distance, for every pair of leaf kinds and for operands of
\* several parts.
C13_DistanceSymmetric ==
    OpsDone("get_euclidean_distance") =>
        \A c \in wk.res, e \in wk.res :
            (c.prepared = e.prepared /\ c.lhs = e.rhs /\ c.rhs = e.lhs) =>
                /\ c.ret = e.ret
                /\ c.ret => c.result = e.result

\* C14: for every geometry a with at least one leaf that is not empty,
\* get_euclidean_distance(a, a) returns true with distance 0.
C14_DistanceIdentity ==
    OpsDone("get_euclidean_distance") =>
        \A c \in wk.res :
            (~c.prepared /\ c.lhs = c.rhs /\ HasLeaf(heap, Operands(heap)[c.lhs])) =>
                c.ret /\ c.result = NoDistance

\* C15: for every pair of geometries, and for every pair of linestrings of
\* one vertex or more, get_euclidean_distance on the prepared copies made by
\* prepared_geometry::make returns the same found flag and the same distance
\* as on the originals.
C15_PreparedParity ==
    OpsDone("get_euclidean_distance") =>
        \A c \in wk.res, e \in wk.res :
            (c.prepared /\ ~e.prepared /\ c.lhs = e.lhs /\ c.rhs = e.rhs) =>
                /\ c.ret = e.ret
                /\ c.ret => c.result = e.result

\* ------------------------------------------------------------- ops::force_zm
\* vertex_type
TypeXY == 0
TypeXYZ == 1
TypeXYM == 2
TypeXYZM == 3

\* static_cast<vertex_type>(has_z + 2 * has_m)
VertexType(has_z, has_m) == B2N(has_z) + 2 * B2N(has_m)

\* resize_vertices: the doubles of the vertex array it returns.  S(i, k) is
\* double k of source vertex i.  From XYZ to XYZM each vertex is copied as
\* four doubles, the fourth then overwritten: for the last vertex the copy
\* reads the double behind the source array, which is beyond here.
resize_vertices(g, set_z, set_m, default_z, default_m, beyond) ==
    LET source_type == VertexType(g.z, g.m)
        target_type == VertexType(set_z, set_m)
        target_size == 2 + B2N(set_z) + B2N(set_m)
        source_data == g.verts \o <<beyond>>
        S(i, k) == source_data[i * Stride(g) + k]
        Target(i) ==
            IF source_type = TypeXY
            THEN IF target_type = TypeXYZ THEN <<S(i, 1), S(i, 2), default_z>>
                 ELSE IF target_type = TypeXYM THEN <<S(i, 1), S(i, 2), default_m>>
                 ELSE <<S(i, 1), S(i, 2), default_z, default_m>>
            ELSE IF source_type = TypeXYZ
            THEN IF target_type = TypeXY THEN <<S(i, 1), S(i, 2)>>
                 ELSE IF target_type = TypeXYM
                 THEN [<<S(i, 1), S(i, 2), S(i, 3)>> EXCEPT ![3] = default_m]
                 ELSE [<<S(i, 1), S(i, 2), S(i, 3), S(i, 4)>> EXCEPT ![4] = default_m]
            ELSE IF source_type = TypeXYM
            THEN IF target_type = TypeXY THEN <<S(i, 1), S(i, 2)>>
                 ELSE IF target_type = TypeXYZ THEN <<S(i, 1), S(i, 2), default_z>>
                 ELSE <<S(i, 1), S(i, 2), default_z, S(i, 3)>>
            ELSE IF target_type = TypeXY THEN <<S(i, 1), S(i, 2)>>
                 ELSE IF target_type = TypeXYZ THEN <<S(i, 1), S(i, 2), S(i, 3)>>
                 ELSE <<S(i, 1), S(i, 2), S(i, 4)>>
    IN  IF source_type = target_type THEN g.verts
        ELSE [j \in 1..(g.size * target_size) |->
                 Target((j - 1) \div target_size)[((j - 1) % target_size) + 1]]

\* the first callback of force_zm: a single part that is not empty is resized
ForceEnter(h, part, a, beyond) ==
    IF ~is_multi_part(h[part]) /\ ~is_empty(h[part])
    THEN [h EXCEPT ![part].verts =
                       resize_vertices(h[part], a.set_z, a.set_m, a.default_z,
                                       a.default_m, beyond)]
    ELSE h

\* A plausible slip: the second callback sets has_z and leaves has_m.
ForceLeave_KeepM(h, part, a) == [h EXCEPT ![part].z = a.set_z]

\* the second callback of force_zm
ForceLeave(h, part, a) == [h EXCEPT ![part].z = a.set_z, ![part].m = a.set_m]

\* visit_all_parts_mutable with the callbacks of force_zm: on_enter in phase
\* "enter", on_leave in phase "leave"
RECURSIVE ForceVisit(_, _, _, _, _, _)
ForceVisit(h, root, part, phase, a, beyond) ==
    IF phase = "enter"
    THEN IF is_multi_part(h[part]) /\ ~is_empty(h[part])
         THEN ForceVisit(ForceEnter(h, part, a, beyond), root, get_first_part(h, part),
                         "enter", a, beyond)
         ELSE ForceVisit(ForceEnter(h, part, a, beyond), root, part, "leave", a, beyond)
    ELSE IF h[part].prnt = root THEN ForceLeave(h, part, a)
         ELSE IF part # get_last_part(h, h[part].prnt)
         THEN ForceVisit(ForceLeave(h, part, a), root, h[part].next, "enter", a, beyond)
         ELSE ForceVisit(ForceLeave(h, part, a), root, h[part].prnt, "leave", a, beyond)

\* ops::force_zm
force_zm(h, geom, a, beyond) == ForceVisit(h, h[geom].prnt, geom, "enter", a, beyond)

\* n vertices of the flags given, every ordinate a value of its own
Ordinates(has_z, has_m, n) ==
    [j \in 1..(n * (2 + B2N(has_z) + B2N(has_m))) |->
        LET i == (j - 1) \div (2 + B2N(has_z) + B2N(has_m))
            k == (j - 1) % (2 + B2N(has_z) + B2N(has_m))
        IN  10 * (i + 1) + (IF k = 2 /\ ~has_z THEN 4 ELSE k + 1)]

Single(type, has_z, has_m, n) == Desc(type, has_z, has_m, Ordinates(has_z, has_m, n), <<>>)

Multiple(type, has_z, has_m, ps) == Desc(type, has_z, has_m, <<>>, ps)

\* leaves, empty and not, polygons, and collections, nested and with a member
\* of other flags (the WKB reader builds them when mixed flags are allowed)
ForceInputs ==
    UNION {{Single(POINT, z, m, 0), Single(POINT, z, m, 1), Single(LINESTRING, z, m, 0),
            Single(LINESTRING, z, m, 2),
            Multiple(POLYGON, z, m, <<>>),
            Multiple(POLYGON, z, m, <<Single(LINESTRING, z, m, 3), Single(LINESTRING, z, m, 0)>>),
            Multiple(MULTI_POINT, z, m, <<Single(POINT, z, m, 1), Single(POINT, z, m, 0)>>),
            Multiple(GEOMETRY_COLLECTION, z, m,
                  <<Single(POINT, z, m, 1),
                    Multiple(GEOMETRY_COLLECTION, z, m,
                          <<Multiple(POLYGON, z, m, <<Single(LINESTRING, z, m, 3)>>)>>),
                    Single(LINESTRING, z, m, 2)>>),
            Multiple(GEOMETRY_COLLECTION, z, m,
                  <<Single(LINESTRING, ~z, m, 2), Single(POINT, z, ~m, 1)>>)}
           : z \in BOOLEAN, m \in BOOLEAN}

\* the arguments of a call: the flags and the defaults
ForceArgs ==
    {[set_z |-> z, set_m |-> m, default_z |-> dz, default_m |-> dm] :
        z \in BOOLEAN, m \in BOOLEAN, dz \in {0, 5}, dm \in {0, 6}}

\* a geometry and the arguments; res holds the heap as it was before each call
InitForce ==
    /\ heap \in {Put(<<>>, NULL, d) : d \in ForceInputs}
    /\ nalloc = 0
    /\ kids = <<>>
    /\ op = "idle"
    /\ fp = NoFilter
    /\ vp = NoVisit
    /\ rd = NewReader
    /\ wk \in {[NoOpsCall EXCEPT !.arg = a, !.res = <<>>] : a \in ForceArgs}

\* ops::force_zm(alloc, geom, set_z, set_m, default_z, default_m), made twice
\* with the same arguments
ForceZm ==
    /\ wk.mode = "ops"
    /\ Len(wk.res) < 2
    /\ \E beyond \in {0, 99} : heap' = force_zm(heap, 1, wk.arg, beyond)
    /\ wk' = [wk EXCEPT !.pc = "done", !.fn = "force_zm", !.res = Append(@, heap)]
    /\ UNCHANGED <<nalloc, kids, op, fp, vp, rd>>

SpecForce == InitForce /\ [][ForceZm]_vars

\* the z and the m of vertex i (from 0) of g
OrdZ(g, i) == g.verts[i * Stride(g) + 3]

OrdM(g, i) == g.verts[i * Stride(g) + 3 + B2N(g.z)]

\* the heap after the first call
Forced == IF Len(wk.res) = 1 THEN heap ELSE wk.res[2]

\* C17: after force_zm(alloc, g, z, m, dz, dm) every node of g has has_z = z
\* and has_m = m, every leaf keeps its vertex count and has a vertex width of
\* 2 + z + m doubles (8 bytes each), x and y of every vertex are unchanged, a
\* kept ordinate keeps its value and an added one holds the default; the same
\* call made a second time changes no flag, count or ordinate.
C17_ForceZm ==
    OpsDone("force_zm") =>
        /\ \A n \in DOMAIN Forced :
              LET b == wk.res[1][n]
                  g == Forced[n]
              IN  /\ g.z = wk.arg.set_z /\ g.m = wk.arg.set_m
                  /\ g.size = b.size /\ g.type = b.type
                  /\ g.next = b.next /\ g.prnt = b.prnt /\ g.data = b.data
                  /\ ~is_multi_part(g) =>
                        /\ Len(g.verts) = g.size * (2 + B2N(wk.arg.set_z) + B2N(wk.arg.set_m))
                        /\ \A i \in 0..(g.size - 1) :
                              /\ VX(g, i) = VX(b, i) /\ VY(g, i) = VY(b, i)
                              /\ g.z => OrdZ(g, i) = (IF b.z THEN OrdZ(b, i)
                                                      ELSE wk.arg.default_z)
                              /\ g.m => OrdM(g, i) = (IF b.m THEN OrdM(b, i)
                                                      ELSE wk.arg.default_m)
        /\ Len(wk.res) = 2 => heap = wk.res[2]

\* both calls made on a collection with a member of other flags, from which z
\* is taken and to which m is added
C17_Witness ==
    /\ OpsDone("force_zm")
    /\ Len(wk.res) = 2
    /\ wk.res[1][1].type = GEOMETRY_COLLECTION
    /\ wk.res[1][1].z /\ ~wk.res[1][1].m
    /\ \E n \in DOMAIN heap : ~wk.res[1][n].z /\ wk.res[1][n].size = 2
    /\ ~wk.arg.set_z /\ wk.arg.set_m /\ wk.arg.default_m = 6
    /\ \A n \in DOMAIN heap : heap[n].m /\ ~heap[n].z

\* ----------------------------------------------------- ops::affine_transform
\* affine_matrix::apply_xyz on a vertex_xyzm <<x, y, z, m>>; v is the matrix,
\* v[0] of the code being v[1] here.  The result starts as {0, 0, 0, 0}.
apply_xyz(v, vertex) ==
    <<v[1] * vertex[1] + v[2] * vertex[2] + v[3] * vertex[3] + v[4],
      v[5] * vertex[1] + v[6] * vertex[2] + v[7] * vertex[3] + v[8],
      v[9] * vertex[1] + v[10] * vertex[2] + v[11] * vertex[3] + v[12],
      0>>

\* The callback of affine_transform on one vertex array.  vertex starts as
\* {0, 0, 1, 1}; for each vertex its first vertex_width doubles are copied
\* over it, it is transformed, and the first vertex_width doubles of the new
\* vertex are copied out.
TransformPart(g, matrix) ==
    LET Loaded(i) == [k \in 1..4 |-> IF k <= Stride(g) THEN g.verts[i * Stride(g) + k]
                                     ELSE <<0, 0, 1, 1>>[k]]
    IN  [g EXCEPT !.verts =
            [j \in 1..(g.size * Stride(g)) |->
                apply_xyz(matrix, Loaded((j - 1) \div Stride(g)))[((j - 1) % Stride(g)) + 1]]]

\* visit_vertex_arrays_mutable with the callback of affine_transform
RECURSIVE TransformVisit(_, _, _, _, _)
TransformVisit(h, root, part, phase, matrix) ==
    IF phase = "switch"
    THEN IF h[part].type \in {POINT, LINESTRING}
         THEN TransformVisit([h EXCEPT ![part] = TransformPart(@, matrix)], root, part,
                             "ascend", matrix)
         ELSE IF is_multi_part(h[part]) /\ ~is_empty(h[part])
         THEN TransformVisit(h, root, get_first_part(h, part), "switch", matrix)
         ELSE TransformVisit(h, root, part, "ascend", matrix)
    ELSE IF h[part].prnt = root THEN h
         ELSE IF part # get_last_part(h, h[part].prnt)
         THEN TransformVisit(h, root, h[part].next, "switch", matrix)
         ELSE TransformVisit(h, root, h[part].prnt, "ascend", matrix)

\* ops::affine_transform
affine_transform(h, geom, matrix) == TransformVisit(h, h[geom].prnt, geom, "switch", matrix)

\* the identity, a translation, a scaling, and a matrix that mixes x, y and z
AffineMatrices ==
    {<<1, 0, 0, 0, 0, 1, 0, 0, 0, 0, 1, 0>>, <<1, 0, 0, 1, 0, 1, 0, 2, 0, 0, 1, 3>>,
     <<2, 0, 0, 0, 0, 2, 0, 0, 0, 0, 2, 0>>, <<0, 1, 1, 0, 1, 0, 0, 1, 1, 1, 0, 0>>}

\* a geometry and a matrix; res holds the heap as it was before the call
InitAffine ==
    /\ heap \in {Put(<<>>, NULL, d) : d \in ForceInputs}
    /\ nalloc = 0
    /\ kids = <<>>
    /\ op = "idle"
    /\ fp = NoFilter
    /\ vp = NoVisit
    /\ rd = NewReader
    /\ wk \in {[NoOpsCall EXCEPT !.arg = a, !.res = <<>>] : a \in AffineMatrices}

\* ops::affine_transform(allocator, geom, matrix)
AffineTransform ==
    /\ wk.mode = "ops"
    /\ wk.pc = "idle"
    /\ heap' = affine_transform(heap, 1, wk.arg)
    /\ wk' = [wk EXCEPT !.pc = "done", !.fn = "affine_transform", !.res = <<heap>>]
    /\ UNCHANGED <<nalloc, kids, op, fp, vp, rd>>

SpecAffine == InitAffine /\ [][AffineTransform]_vars

\* C18: affine_transform ignores m: for leaves that carry m (XYM and XYZM)
\* the m of every vertex is the same after the call as before, for every
\* matrix; x, y and, on leaves with z, z are those the matrix gives for
\* (x, y, z).
C18_AffineKeepsM ==
    OpsDone("affine_transform") =>
        \A n \in DOMAIN heap :
            LET b == wk.res[1][n]
                g == heap[n]
            IN  ~is_multi_part(g) =>
                    \A i \in 0..(g.size - 1) :
                        /\ b.m => OrdM(g, i) = OrdM(b, i)
                        /\ b.z => <<VX(g, i), VY(g, i), OrdZ(g, i)>>
                                  = SubSeq(apply_xyz(wk.arg, <<VX(b, i), VY(b, i), OrdZ(b, i), 0>>),
                                           1, 3)

\* what does hold: x, y and z of the leaves with z are those of the matrix
C18_TransformsXYZ ==
    OpsDone("affine_transform") =>
        \A n \in DOMAIN heap :
            LET b == wk.res[1][n]
                g == heap[n]
            IN  (~is_multi_part(g) /\ b.z) =>
                    \A i \in 0..(g.size - 1) :
                        <<VX(g, i), VY(g, i), OrdZ(g, i)>>
                        = SubSeq(apply_xyz(wk.arg, <<VX(b, i), VY(b, i), OrdZ(b, i), 0>>), 1, 3)

\* ------------------------------------------- ops::get_max_surface_dimension
\* the dimension the switch gives a type, none for a collection
Dimension(type) ==
    IF type \in {POINT, MULTI_POINT} THEN 0
    ELSE IF type \in {LINESTRING, MULTI_LINESTRING} THEN 1
    ELSE IF type \in {POLYGON, MULTI_POLYGON} THEN 2
    ELSE 0 - 1

\* The loops of get_max_surface_dimension: the switch on part in phase
\* "switch", the way up and on in phase "ascend".
RECURSIVE SurfaceVisit(_, _, _, _, _, _)
SurfaceVisit(h, root, part, phase, ignore_empty, max_dim) ==
    IF phase = "switch"
    THEN IF is_empty(h[part]) /\ ignore_empty
         THEN SurfaceVisit(h, root, part, "ascend", ignore_empty, max_dim)
         ELSE IF h[part].type = GEOMETRY_COLLECTION
         THEN IF is_empty(h[part])
              THEN SurfaceVisit(h, root, part, "ascend", ignore_empty, max_dim)
              ELSE SurfaceVisit(h, root, get_first_part(h, part), "switch", ignore_empty,
                                max_dim)
         ELSE SurfaceVisit(h, root, part, "ascend", ignore_empty,
                           Max(max_dim, Dimension(h[part].type)))
    ELSE IF h[part].prnt = root THEN max_dim
         ELSE IF part # get_last_part(h, h[part].prnt)
         THEN SurfaceVisit(h, root, h[part].next, "switch", ignore_empty, max_dim)
         ELSE SurfaceVisit(h, root, h[part].prnt, "ascend", ignore_empty, max_dim)

\* ops::get_max_surface_dimension
get_max_surface_dimension(h, geom, ignore_empty) ==
    SurfaceVisit(h, h[geom].prnt, geom, "switch", ignore_empty, 0 - 1)

\* the geometries of the distances, and geometries whose parts are all empty
SurfaceInputs ==
    DistanceInputs
    \cup {Several(MULTI_POINT, <<Point(<<>>)>>),
          Several(MULTI_LINESTRING, <<Vertices(<<>>), Vertices(<<>>)>>),
          Polygon(<<Vertices(<<>>)>>),
          Several(MULTI_POLYGON, <<Polygon(<<>>)>>),
          Several(GEOMETRY_COLLECTION,
                  <<Several(MULTI_LINESTRING, <<Vertices(<<>>)>>), Point(<<1, 1>>)>>),
          Several(GEOMETRY_COLLECTION, <<Several(GEOMETRY_COLLECTION, <<>>)>>),
          Several(GEOMETRY_COLLECTION, <<Polygon(<<>>), Vertices(<<0, 0, 1, 1>>), Point(<<>>)>>)}

InitSurface == InitOps({Put(<<>>, NULL, d) : d \in SurfaceInputs}, BOOLEAN)

\* ops::get_max_surface_dimension(geom, ignore_empty)
GetMaxSurfaceDimension ==
    /\ wk.mode = "ops"
    /\ wk.pc = "idle"
    /\ wk' = [wk EXCEPT !.pc = "done", !.fn = "get_max_surface_dimension",
                        !.res = get_max_surface_dimension(heap, 1, wk.arg)]
    /\ UNCHANGED <<heap, nalloc, kids, op, fp, vp, rd>>

SpecSurface == InitSurface /\ [][GetMaxSurfaceDimension]_vars

\* the number of vertices of a geometry and its parts
RECURSIVE VertexTotal(_, _)
VertexTotal(h, n) ==
    IF ~is_multi_part(h[n]) THEN h[n].size
    ELSE Sum([i \in 1..h[n].size |-> VertexTotal(h, ChildList(h, n)[i])])

\* the largest of a set of dimensions, -1 for none
Largest(S) == IF S = {} THEN 0 - 1 ELSE CHOOSE e \in S : \A o \in S : e >= o

\* C19: get_max_surface_dimension(g, TRUE) is the largest dimension (0, 1, 2
\* for the point, line and polygon kinds) among the parts of g that hold a
\* vertex, and -1 exactly when g holds no vertex; with FALSE the empty parts
\* of a kind count as well.
C19_MaxSurfaceDimension ==
    OpsDone("get_max_surface_dimension") =>
        wk.res = Largest({Dimension(heap[n].type) :
                             n \in {k \in DOMAIN heap :
                                       /\ heap[k].type # GEOMETRY_COLLECTION
                                       /\ wk.arg => VertexTotal(heap, k) > 0}})

\* what does hold: the result is the largest dimension among the geometries
\* of a kind, those of size 0 left out when ignore_empty is set; the size of
\* a geometry of several parts is the number of its parts
C19_ByPartCount ==
    OpsDone("get_max_surface_dimension") =>
        wk.res = Largest({Dimension(heap[n].type) :
                             n \in {k \in DOMAIN heap :
                                       /\ heap[k].type # GEOMETRY_COLLECTION
                                       /\ wk.arg => ~is_empty(heap[k])}})

\* ------------------------------------ ops::extract_points and its siblings
\* The three extractions differ in the leaf kind they collect and the multi
\* kind they descend into: leaf is POINT, LINESTRING or POLYGON, and the multi
\* kind is leaf + 3.
MultiOf(leaf) == leaf + (MULTI_POINT - POINT)

\* select_points, select_lines, select_polygons
select_parts(leaf, type) == type \in {leaf, MultiOf(leaf), GEOMETRY_COLLECTION}

\* geometry::filter_parts(state, select, handle) on node n with the callbacks
\* of an extraction, and handle_points, handle_lines, handle_polygons: a part
\* of the leaf kind is appended to result, any other selected part is filtered
\* in turn.  prev, tail and shrank are the locals of the loop.
RECURSIVE filter_parts(_, _, _, _)
RECURSIVE handle_parts(_, _, _, _)
RECURSIVE FilterLoop(_, _, _, _, _, _, _)

\* A plausible slip: a nested collection is dropped instead of filtered.
handle_parts_Flat(h, result, geom, leaf) ==
    IF h[geom].type = leaf THEN AppendPart(h, result, geom)
    ELSE h

handle_parts(h, result, geom, leaf) ==
    IF h[geom].type = leaf THEN AppendPart(h, result, geom)
    ELSE filter_parts(h, geom, result, leaf)

FilterLoop(h, n, result, leaf, prev, tail, shrank) ==
    IF ~(h[n].size > 0 /\ (prev # tail \/ shrank))
    THEN IF h[n].size = 0 THEN [h EXCEPT ![n].data = NULL] ELSE h
    ELSE LET Body(curr, next) ==
                 IF select_parts(leaf, h[curr].type)
                 THEN FilterLoop(handle_parts([h EXCEPT ![prev].next = next,
                                                        ![n].size = @ - 1,
                                                        ![n].data = IF curr = tail THEN prev ELSE @,
                                                        ![curr].prnt = NULL,
                                                        ![curr].next = NULL],
                                              result, curr, leaf),
                                 n, result, leaf, prev,
                                 IF curr = tail THEN prev ELSE tail, TRUE)
                 ELSE FilterLoop(h, n, result, leaf, curr, tail, FALSE)
         IN  Body(h[prev].next, h[h[prev].next].next)

filter_parts(h, n, result, leaf) ==
    IF get_last_part(h, n) = NULL THEN h
    ELSE FilterLoop(h, n, result, leaf, get_last_part(h, n), get_last_part(h, n), TRUE)

\* the body the three extractions share: result is typed and flagged, then
\* geom is filtered
extract_parts(h, geom, result, leaf) ==
    filter_parts([h EXCEPT ![result].type = MultiOf(leaf), ![result].z = h[geom].z,
                           ![result].m = h[geom].m],
                 geom, result, leaf)

\* ops::extract_points
extract_points(h, geom, result) == extract_parts(h, geom, result, POINT)

\* ops::extract_linestrings
extract_linestrings(h, geom, result) == extract_parts(h, geom, result, LINESTRING)

\* ops::extract_polygons
extract_polygons(h, geom, result) == extract_parts(h, geom, result, POLYGON)

\* geometries of several parts, nested, with every leaf kind among the parts
ExtractInputs ==
    UNION {LET P == Single(POINT, z, m, 1)
               L == Single(LINESTRING, z, m, 2)
               A == Multiple(POLYGON, z, m, <<Single(LINESTRING, z, m, 3)>>)
               MP == Multiple(MULTI_POINT, z, m, <<P, Single(POINT, z, m, 0)>>)
               ML == Multiple(MULTI_LINESTRING, z, m, <<L, L>>)
               MA == Multiple(MULTI_POLYGON, z, m, <<A>>)
               GC(ps) == Multiple(GEOMETRY_COLLECTION, z, m, ps)
           IN  {MP, ML, MA, Multiple(MULTI_POINT, z, m, <<>>), GC(<<>>),
                GC(<<P, L, A>>), GC(<<L, P, P, A, L>>),
                GC(<<MP, L, GC(<<P, ML>>), P>>),
                GC(<<GC(<<GC(<<P>>), A>>), MA, L>>),
                GC(<<A, ML, GC(<<>>), GC(<<MA, MP>>)>>),
                GC(<<GC(<<L, GC(<<P, A, L>>)>>)>>),
                GC(<<MP, MP, ML, MA, MA>>)}
           : z \in BOOLEAN, m \in BOOLEAN}

\* the geometry at 1, and an empty result behind it
InitExtract ==
    /\ heap \in {Append(Put(<<>>, NULL, d), DefaultGeometry) : d \in ExtractInputs}
    /\ nalloc = 0
    /\ kids = <<>>
    /\ op = "idle"
    /\ fp = NoFilter
    /\ vp = NoVisit
    /\ rd = NewReader
    /\ wk = [NoOpsCall EXCEPT !.arg = POINT, !.res = <<>>]

\* ops::extract_points(geom, result); arg is the leaf kind, res the heap as
\* it was before the call
ExtractPoints ==
    /\ wk.mode = "ops"
    /\ wk.pc = "idle"
    /\ heap' = extract_points(heap, 1, Len(heap))
    /\ wk' = [wk EXCEPT !.pc = "done", !.fn = "extract", !.arg = POINT, !.res = <<heap>>]
    /\ UNCHANGED <<nalloc, kids, op, fp, vp, rd>>

\* ops::extract_linestrings(geom, result)
ExtractLinestrings ==
    /\ wk.mode = "ops"
    /\ wk.pc = "idle"
    /\ heap' = extract_linestrings(heap, 1, Len(heap))
    /\ wk' = [wk EXCEPT !.pc = "done", !.fn = "extract", !.arg = LINESTRING, !.res = <<heap>>]
    /\ UNCHANGED <<nalloc, kids, op, fp, vp, rd>>

\* ops::extract_polygons(geom, result)
ExtractPolygons ==
    /\ wk.mode = "ops"
    /\ wk.pc = "idle"
    /\ heap' = extract_polygons(heap, 1, Len(heap))
    /\ wk' = [wk EXCEPT !.pc = "done", !.fn = "extract", !.arg = POLYGON, !.res = <<heap>>]
    /\ UNCHANGED <<nalloc, kids, op, fp, vp, rd>>

NextExtract == ExtractPoints \/ ExtractLinestrings \/ ExtractPolygons

SpecExtract == InitExtract /\ [][NextExtract]_vars

\* the nodes of the leaf kind reachable from n through nodes of the multi
\* kind and collections, in document order
RECURSIVE Reachable(_, _, _)
Reachable(h, n, leaf) ==
    LET RECURSIVE Among(_)
        Among(cs) ==
            IF cs = <<>> THEN <<>>
            ELSE (IF h[Head(cs)].type = leaf THEN <<Head(cs)>>
                  ELSE IF h[Head(cs)].type \in {MultiOf(leaf), GEOMETRY_COLLECTION}
                  THEN Reachable(h, Head(cs), leaf)
                  ELSE <<>>) \o Among(Tail(cs))
    IN  Among(ChildList(h, n))

\* C20: after extract_points(g, out) on a MULTI_POINT or GEOMETRY_COLLECTION g
\* and an empty out, out is a MULTI_POINT with the flags of g whose children
\* are exactly the POINT nodes that were reachable from g through MULTI_POINT
\* and GEOMETRY_COLLECTION nodes, each once, in document order, each with
\* parent out, in a well-formed circular list whose length is the part count;
\* extract_linestrings and extract_polygons do the same for their kinds.
C20_Extract ==
    (OpsDone("extract")
        /\ wk.res[1][1].type \in {MultiOf(wk.arg), GEOMETRY_COLLECTION}) =>
        LET out == Len(heap)
            was == Reachable(wk.res[1], 1, wk.arg)
        IN  /\ heap[out].type = MultiOf(wk.arg)
            /\ heap[out].z = wk.res[1][1].z /\ heap[out].m = wk.res[1][1].m
            /\ heap[out].size = Len(was)
            /\ ChildList(heap, out) = was
            /\ \A i \in DOMAIN was :
                  /\ heap[was[i]].prnt = out
                  /\ heap[was[i]].type = wk.arg
                  /\ heap[was[i]].next = was[(i % Len(was)) + 1]
                  /\ \A j \in DOMAIN was : was[i] = was[j] => i = j
            /\ heap[out].data = (IF was = <<>> THEN NULL ELSE was[Len(was)])

\* points taken from a collection, from a MULTI_POINT and from a collection
\* within it, a linestring left behind
C20_Witness ==
    /\ OpsDone("extract")
    /\ wk.arg = POINT
    /\ wk.res[1][1].type = GEOMETRY_COLLECTION
    /\ wk.res[1][1].z /\ ~wk.res[1][1].m
    /\ heap[Len(heap)].size = 4
    /\ heap[1].size = 1
    /\ \E n \in DOMAIN heap :
          /\ heap[n].prnt = Len(heap)
          /\ wk.res[1][n].prnt # 1
          /\ wk.res[1][wk.res[1][n].prnt].type = GEOMETRY_COLLECTION

\* ------------------------------------------- linestring::interpolate_points
\* the most points a call is followed for
MaxPoints == 4

\* std::sqrt, on the squares the vertices of the inputs make
sqrt(n) == CHOOSE r \in 0..n : r * r = n

\* the length of the segment that ends at vertex i of g
segment_length(g, i) ==
    sqrt((VX(g, i) - VX(g, i - 1)) * (VX(g, i) - VX(g, i - 1))
         + (VY(g, i) - VY(g, i - 1)) * (VY(g, i) - VY(g, i - 1)))

vertex_array_length(g) ==
    IF g.size < 2 THEN 0 ELSE Sum([i \in 1..(g.size - 1) |-> segment_length(g, i)])

\* ops::get_length of a LINESTRING: its one line is visited
get_length(h, geom) == vertex_array_length(h[geom])

\* math::max on fractions
max(a, b) == IF DistLess(a, b) THEN b ELSE a

\* frac = math::min(math::max(frac, 0.0), 1.0)
ClampFrac(frac) == min(max(frac, Fraction(0, 1)), Fraction(1, 1))

\* a quotient of doubles: a reduced fraction, infinity (d = 0) or NaN (0 / 0)
Quotient(n, d) == IF d = 0 THEN [n |-> Sign(n), d |-> 0] ELSE Fraction(n, d)

\* prev + sfrac * (next - prev), sfrac = remaining / segment_length, with
\* remaining = rem / den: NaN when the segment has no length and rem = 0
PointAt(prev, next, rem, seg, den) ==
    IF seg = 0 THEN Quotient(0, 0) ELSE Quotient(prev * seg * den + rem * (next - prev), seg * den)

\* result typed POINT over n vertices of the array of geom from vertex first
ResultPoint(h, geom, result, first, n) ==
    [h EXCEPT ![result].z = h[geom].z, ![result].m = h[geom].m, ![result].type = POINT,
              ![result].size = n, ![result].data = IF n = 0 THEN @ ELSE ArrayPtr,
              ![result].verts = SubSeq(h[geom].verts, first * Stride(h[geom]) + 1,
                                       (first + n) * Stride(h[geom]))]

\* the call up to its loop: the early returns, or the frame of the loop.
\* next_target is held as a count of den-ths, den the denominator of frac.
InterpolateEnter(h, geom, result, frac) ==
    IF h[geom].type # LINESTRING \/ is_empty(h[geom])
    THEN [h |-> ResultPoint(h, geom, result, 0, 0), pc |-> "done", frame |-> 0]
    ELSE IF h[geom].size = 1 \/ frac.n = 0
    THEN [h |-> ResultPoint(h, geom, result, 0, 1), pc |-> "done", frame |-> 0]
    ELSE IF frac.n = frac.d
    THEN [h |-> ResultPoint(h, geom, result, h[geom].size - 1, 1), pc |-> "done", frame |-> 0]
    ELSE [h |-> [h EXCEPT ![result].z = h[geom].z, ![result].m = h[geom].m,
                          ![result].type = MULTI_POINT],
          pc |-> "loop",
          frame |-> [i |-> 1, total_length |-> 0, next_target |-> frac.n * get_length(h, geom),
                     step |-> frac.n * get_length(h, geom), den |-> frac.d]]

\* total_length + segment_length >= next_target
WhileCond(g, f) == (f.total_length + segment_length(g, f.i)) * f.den >= f.next_target

\* one turn of the while loop: a POINT of the interpolated vertex is
\* allocated and appended to result
InterpolateAppend(h, geom, result, f) ==
    LET K(g, seg, rem) ==
            AppendPart(Append(h, VertexNode(POINT, g.z, g.m,
                                  <<PointAt(VX(g, f.i - 1), VX(g, f.i), rem, seg, f.den),
                                    PointAt(VY(g, f.i - 1), VY(g, f.i), rem, seg, f.den)>>)),
                       result, Len(h) + 1)
    IN  K(h[geom], segment_length(h[geom], f.i), f.next_target - f.total_length * f.den)

\* lines of up to three vertices on the corners of a 3 by 4 rectangle, whose
\* sides and diagonals have whole lengths; vertices may repeat
Corners == {<<0, 0>>, <<3, 0>>, <<3, 4>>, <<0, 4>>}

InterpolateInputs ==
    {Vertices(<<>>), Point(<<3, 4>>)}
    \cup {Vertices(a) : a \in Corners}
    \cup {Vertices(a \o b) : a \in Corners, b \in Corners}
    \cup {Vertices(a \o b \o c) : a \in Corners, b \in Corners, c \in Corners}

InterpolateFracs ==
    {[n |-> 0 - 1, d |-> 1], [n |-> 0, d |-> 1], [n |-> 1, d |-> 3], [n |-> 1, d |-> 2],
     [n |-> 2, d |-> 3], [n |-> 1, d |-> 1], [n |-> 2, d |-> 1]}

\* geom is node 1, result node 2, a geometry as constructed
InitInterpolate ==
    InitOps({Append(Put(<<>>, NULL, d), DefaultGeometry) : d \in InterpolateInputs},
            InterpolateFracs)

\* linestring::interpolate_points(alloc, geom, frac, result), up to the loop
InterpolatePoints ==
    /\ wk.mode = "ops"
    /\ wk.pc = "idle"
    /\ LET K(e) ==
               /\ heap' = e.h
               /\ wk' = [wk EXCEPT !.pc = e.pc, !.fn = "interpolate_points", !.res = e.frame]
       IN  K(InterpolateEnter(heap, 1, 2, ClampFrac(wk.arg)))
    /\ UNCHANGED <<nalloc, kids, op, fp, vp, rd>>

\* a turn of the while loop of segment i
InterpolateWhile ==
    /\ wk.mode = "ops"
    /\ wk.pc = "loop"
    /\ wk.fn = "interpolate_points"
    /\ wk.res.i < heap[1].size
    /\ WhileCond(heap[1], wk.res)
    /\ heap[2].size < MaxPoints
    /\ heap' = InterpolateAppend(heap, 1, 2, wk.res)
    /\ wk' = [wk EXCEPT !.res.next_target = @ + wk.res.step]
    /\ UNCHANGED <<nalloc, kids, op, fp, vp, rd>>

\* the while loop of segment i is left: the for loop goes on, or returns
InterpolateFor ==
    /\ wk.mode = "ops"
    /\ wk.pc = "loop"
    /\ wk.fn = "interpolate_points"
    /\ IF wk.res.i < heap[1].size
       THEN /\ ~WhileCond(heap[1], wk.res)
            /\ wk' = [wk EXCEPT !.res.total_length = @ + segment_length(heap[1], wk.res.i),
                                !.res.i = @ + 1]
       ELSE wk' = [wk EXCEPT !.pc = "done"]
    /\ UNCHANGED <<heap, nalloc, kids, op, fp, vp, rd>>

NextInterpolate == InterpolatePoints \/ InterpolateWhile \/ InterpolateFor

\* the call runs on whenever it can take a step
SpecInterpolate == InitInterpolate /\ [][NextInterpolate]_vars /\ WF_vars(NextInterpolate)

C21_FinitePoints ==
    (OpsDone("interpolate_points") /\ heap[2].type = MULTI_POINT) =>
        heap[2].size * ClampFrac(wk.arg).n <= ClampFrac(wk.arg).d

\* ------------------------------------------------- linestring::locate_along
\* vertex i (from 0) of g copied over a vertex_xyzm that holds old: the
\* doubles of the vertex fill the first slots, the others keep what they held
LoadVertex(g, i, old) ==
    [k \in 1..4 |-> IF k <= Stride(g) THEN g.verts[i * Stride(g) + k] ELSE old[k]]

\* a sum of a double and a fraction
Plus(a, q) == Quotient(a * q.d + q.n, q.d)

\* the perpendicular offset added to x and y of point: offset * dy / length
\* and -offset * dx / length
OffsetPoint(point, offset, dx, dy, length) ==
    IF offset = 0 THEN point
    ELSE [point EXCEPT ![1] = Plus(offset * dy, [n |-> point[1].n * length, d |-> point[1].d]),
                       ![2] = Plus((0 - offset) * dx, [n |-> point[2].n * length, d |-> point[2].d])]

\* the doubles of a vertex_xyzm as fractions
Exact(v) == [k \in 1..4 |-> Fraction(v[k], 1)]

\* point = {}; x, y, m and, on a line with z, z are set from prev and next at
\* t = (measure - prev_m) / (next_m - prev_m), here with next_m > prev_m
Interpolated(g, prev, next, measure) ==
    LET K(pm, nm) ==
            [k \in 1..4 |->
                IF k = pm THEN Fraction(measure, 1)
                ELSE IF k <= 2 \/ (g.z /\ k = 3)
                THEN Fraction(prev[k] * (nm - prev[pm]) + (measure - prev[pm]) * (next[k] - prev[k]),
                              nm - prev[pm])
                ELSE Fraction(0, 1)]
    IN  K(IF g.z THEN 4 ELSE 3, next[IF g.z THEN 4 ELSE 3])

\* a POINT of the flags of g over the first doubles of point is allocated and
\* appended to out
EmitPoint(h, g, out, point) ==
    AppendPart(Append(h, VertexNode(POINT, g.z, g.m, SubSeq(point, 1, Stride(g)))),
               out, Len(h) + 1)

\* the loop over the segments from vertex i on; prev is the vertex_xyzm the
\* loop holds, which the turn that appends nothing leaves as it is
RECURSIVE LocateLoop(_, _, _, _, _, _, _)
LocateLoop(h, g, i, prev, measure, offset, out) ==
    IF i >= g.size THEN h
    ELSE LET K(next, dx, dy, mo) ==
                 IF dx = 0 /\ dy = 0
                 THEN LocateLoop(h, g, i + 1, next, measure, offset, out)
                 ELSE IF measure = prev[mo]
                 THEN LocateLoop(EmitPoint(h, g, out,
                                     OffsetPoint(Exact(prev), offset, dx, dy,
                                                 sqrt(dx * dx + dy * dy))),
                                 g, i + 1, next, measure, offset, out)
                 ELSE IF prev[mo] < measure /\ next[mo] > measure
                 THEN LocateLoop(EmitPoint(h, g, out,
                                     OffsetPoint(Interpolated(g, prev, next, measure), offset,
                                                 dx, dy, sqrt(dx * dx + dy * dy))),
                                 g, i + 1, next, measure, offset, out)
                 ELSE IF i = g.size - 1 /\ next[mo] = measure
                 THEN LocateLoop(EmitPoint(h, g, out,
                                     OffsetPoint(Exact(next), offset, dx, dy,
                                                 sqrt(dx * dx + dy * dy))),
                                 g, i + 1, prev, measure, offset, out)
                 ELSE LocateLoop(h, g, i + 1, prev, measure, offset, out)
         IN  K(LoadVertex(g, i, prev), LoadVertex(g, i, prev)[1] - prev[1],
               LoadVertex(g, i, prev)[2] - prev[2], IF g.z THEN 4 ELSE 3)

\* linestring::locate_along
locate_along(h, geom, measure, offset, out) ==
    IF h[geom].type # LINESTRING \/ is_empty(h[geom]) \/ ~h[geom].m \/ h[geom].size < 2
    THEN h
    ELSE LocateLoop(h, h[geom], 1, LoadVertex(h[geom], 0, <<0, 0, 0, 0>>), measure, offset, out)

\* the measures tried on a vertex
Measures == 0..2

\* a vertex with m on a corner of the rectangle
MeasuredCorners == {c \o <<m>> : c \in {<<0, 0>>, <<3, 0>>, <<3, 4>>}, m \in Measures}

\* lines with m of two and three vertices, which may coincide, with m rising,
\* falling and level; a line with z and m; the geometries the call leaves alone
LocateInputs ==
    {Desc(LINESTRING, FALSE, TRUE, a \o b, <<>>) : a \in MeasuredCorners, b \in MeasuredCorners}
    \cup {Desc(LINESTRING, FALSE, TRUE, a \o b \o c, <<>>) :
             a \in MeasuredCorners, b \in MeasuredCorners, c \in MeasuredCorners}
    \cup {Desc(LINESTRING, TRUE, TRUE, <<0, 0, 10, a, 3, 0, 20, b, 3, 4, 40, c>>, <<>>) :
             a \in Measures, b \in Measures, c \in Measures}
    \cup {Desc(LINESTRING, FALSE, TRUE, <<>>, <<>>), Desc(LINESTRING, FALSE, TRUE, <<3, 4, 1>>, <<>>),
          Desc(LINESTRING, FALSE, FALSE, <<0, 0, 3, 4>>, <<>>),
          Desc(LINESTRING, TRUE, FALSE, <<0, 0, 1, 3, 4, 1>>, <<>>),
          Desc(POINT, FALSE, TRUE, <<3, 4, 1>>, <<>>)}

\* line is node 1, out node 2, an empty MULTI_POINT of the flags of line
InitLocate ==
    InitOps({Append(Put(<<>>, NULL, l), NewGeometry(MULTI_POINT, l.z, l.m)) : l \in LocateInputs},
            {[measure |-> m, offset |-> o] : m \in {0, 1}, o \in {0, 5}})

\* linestring::locate_along(alloc, line, measure, offset, out)
LocateAlong ==
    /\ wk.mode = "ops"
    /\ wk.pc = "idle"
    /\ heap' = locate_along(heap, 1, wk.arg.measure, wk.arg.offset, 2)
    /\ wk' = [wk EXCEPT !.pc = "done", !.fn = "locate_along", !.res = <<heap>>]
    /\ UNCHANGED <<nalloc, kids, op, fp, vp, rd>>

SpecLocate == InitLocate /\ [][LocateAlong]_vars

\* the doubles of vertex i (from 0) of g, as fractions
ExactVertex(g, i) == [k \in 1..Stride(g) |-> Fraction(g.verts[i * Stride(g) + k], 1)]

\* the m of vertex i of a line with m
MeasureAt(g, i) == g.verts[i * Stride(g) + Stride(g)]

\* the point of the segment from vertex i - 1 to vertex i at measure, which
\* lies strictly between their m: every ordinate at the same fraction
Between(g, i, measure) ==
    [k \in 1..Stride(g) |->
        LET p == g.verts[(i - 1) * Stride(g) + k]
            n == g.verts[i * Stride(g) + k]
            pm == MeasureAt(g, i - 1)
            nm == MeasureAt(g, i)
        IN  IF nm > pm THEN Fraction(p * (nm - pm) + (measure - pm) * (n - p), nm - pm)
            ELSE Fraction(p * (pm - nm) + (pm - measure) * (n - p), pm - nm)]

\* the points the segments from i on are to give
RECURSIVE Located(_, _, _)
Located(g, i, measure) ==
    IF i >= g.size THEN <<>>
    ELSE (IF MeasureAt(g, i - 1) = measure THEN <<ExactVertex(g, i - 1)>>
          ELSE IF \/ MeasureAt(g, i - 1) < measure /\ measure < MeasureAt(g, i)
                  \/ MeasureAt(g, i) < measure /\ measure < MeasureAt(g, i - 1)
          THEN <<Between(g, i, measure)>>
          ELSE IF i = g.size - 1 /\ MeasureAt(g, i) = measure THEN <<ExactVertex(g, i)>>
          ELSE <<>>)
         \o Located(g, i + 1, measure)

\* the vertices of the points of out, in order
OutPoints(h, out) == [k \in 1..h[out].size |-> h[ChildList(h, out)[k]].verts]

\* C22: for a LINESTRING with m and at least two vertices,
\* locate_along(line, measure, 0) appends to out exactly: the previous vertex
\* of each segment whose m is measure; one interpolated point of m = measure
\* for each segment with measure strictly between the m of its ends, rising or
\* falling; the final vertex when its m is measure.  Nothing else.
C22_LocateAlong ==
    (OpsDone("locate_along") /\ wk.arg.offset = 0 /\ heap[1].type = LINESTRING
        /\ heap[1].m /\ heap[1].size >= 2)
    => OutPoints(heap, 2) = Located(heap[1], 1, wk.arg.measure)

\* on lines without coincident vertices whose m never falls and whose
\* segments each hold measure at an end or between their ends, the points
\* are those
C22_RisingSegments ==
    (OpsDone("locate_along") /\ wk.arg.offset = 0 /\ heap[1].type = LINESTRING
        /\ heap[1].m /\ heap[1].size >= 2
        /\ \A i \in 1..(heap[1].size - 1) :
              /\ VX(heap[1], i) # VX(heap[1], i - 1) \/ VY(heap[1], i) # VY(heap[1], i - 1)
              /\ MeasureAt(heap[1], i - 1) <= wk.arg.measure
              /\ wk.arg.measure <= MeasureAt(heap[1], i)
              /\ (i < heap[1].size - 1 => MeasureAt(heap[1], i - 1) = wk.arg.measure
                                          \/ wk.arg.measure < MeasureAt(heap[1], i)))
    => OutPoints(heap, 2) = Located(heap[1], 1, wk.arg.measure)

\* --------------------------------------------------- polygon::init_from_bbox
\* the same with the ring written min,min; max,min; max,max; min,max
init_from_bbox_Reversed(h, min_x, min_y, max_x, max_y, result) ==
    AppendPart(Append([h EXCEPT ![result].type = POLYGON, ![result].z = FALSE,
                                ![result].m = FALSE],
                      VertexNode(LINESTRING, FALSE, FALSE,
                                 <<min_x, min_y, max_x, min_y, max_x, max_y, min_x, max_y,
                                   min_x, min_y>>)),
               result, Len(h) + 1)

\* polygon::init_from_bbox: result is typed and flagged, a LINESTRING over
\* five vertices is allocated and appended to it
init_from_bbox(h, min_x, min_y, max_x, max_y, result) ==
    AppendPart(Append([h EXCEPT ![result].type = POLYGON, ![result].z = FALSE,
                                ![result].m = FALSE],
                      VertexNode(LINESTRING, FALSE, FALSE,
                                 <<min_x, min_y, min_x, max_y, max_x, max_y, max_x, min_y,
                                   min_x, min_y>>)),
               result, Len(h) + 1)

\* result is node 1, a geometry as constructed; the bounds are any four
\* numbers, ordered or not
InitBbox ==
    InitOps({<<DefaultGeometry>>},
            {[min_x |-> a, min_y |-> b, max_x |-> c, max_y |-> e] :
                a \in (0 - 1)..MaxCoord, b \in (0 - 1)..MaxCoord,
                c \in (0 - 1)..MaxCoord, e \in (0 - 1)..MaxCoord})

\* polygon::init_from_bbox(alloc, min_x, min_y, max_x, max_y, result)
InitFromBbox ==
    /\ wk.mode = "ops"
    /\ wk.pc = "idle"
    /\ heap' = init_from_bbox(heap, wk.arg.min_x, wk.arg.min_y, wk.arg.max_x, wk.arg.max_y, 1)
    /\ wk' = [wk EXCEPT !.pc = "done", !.fn = "init_from_bbox"]
    /\ UNCHANGED <<nalloc, kids, op, fp, vp, rd>>

SpecBbox == InitBbox /\ [][InitFromBbox]_vars

\* twice the area a ring encloses, by the shoelace sum over its edges:
\* positive when the ring runs counter-clockwise with x to the right and y
\* upward, negative when it runs clockwise
Shoelace(g) ==
    Sum([i \in 1..(g.size - 1) |-> VX(g, i - 1) * VY(g, i) - VX(g, i) * VY(g, i - 1)])

\* node 1 is a POLYGON without z and m of one ring, node 2, whose five
\* vertices are min,min; min,max; max,max; max,min; min,min
BboxRing ==
    /\ heap[1].type = POLYGON /\ ~heap[1].z /\ ~heap[1].m
    /\ ChildList(heap, 1) = <<2>>
    /\ heap[2].type = LINESTRING /\ ~heap[2].z /\ ~heap[2].m
    /\ heap[2].size = 5
    /\ heap[2].verts = <<wk.arg.min_x, wk.arg.min_y, wk.arg.min_x, wk.arg.max_y,
                         wk.arg.max_x, wk.arg.max_y, wk.arg.max_x, wk.arg.min_y,
                         wk.arg.min_x, wk.arg.min_y>>

Winding(n, a, p, s, q) ==
    [k \in 1..(2 * n) |->
        IF k % 2 = 1 THEN (a * ((k - 1) \div 2)) % p ELSE (((k - 1) \div 2) \div s) % q]

\* the vertex counts of the lines built: none, one leaf box just filled and
\* just exceeded, two and three leaf boxes, and NODE_SIZE leaf boxes just
\* filled and exceeded, where a third level appears
BuildSizes ==
    {0, 1, 2, NODE_SIZE, NODE_SIZE + 1, 2 * NODE_SIZE, 2 * NODE_SIZE + 1,
     NODE_SIZE * NODE_SIZE, NODE_SIZE * NODE_SIZE + 1, NODE_SIZE * NODE_SIZE + NODE_SIZE + 1}

BuildInputs ==
    {[PreparedGeometry EXCEPT !.type = LINESTRING, !.size = n,
                              !.data = IF n = 0 THEN NULL ELSE ArrayPtr,
                              !.verts = Winding(n, a, 11, s, q)] :
        n \in BuildSizes, a \in {1, 7}, s \in {1, 40}, q \in {3, 50}}
    \cup {[PreparedGeometry EXCEPT !.type = POINT, !.size = 1, !.data = ArrayPtr,
                                  !.verts = <<1, 2>>]}

\* vertex counts up to the largest a uint32_t holds
BuildCounts ==
    {Halves(n) : n \in {1, NODE_SIZE, NODE_SIZE + 1, NODE_SIZE * NODE_SIZE,
                        NODE_SIZE * NODE_SIZE + 1, NODE_SIZE ^ 3 + 1, NODE_SIZE ^ 6,
                        NODE_SIZE ^ 6 + 1}}
    \cup {[hi |-> 65535, lo |-> lo] :
             lo \in {0, 65536 - NODE_SIZE, 65536 - NODE_SIZE + 1, 65535}}

\* a geometry whose vertex array is set, not yet built, and a vertex count:
\* every geometry with one count, and one geometry with every count
InitBuild ==
    \/ InitOps({<<g>> : g \in BuildInputs}, {Halves(1)})
    \/ InitOps({<<[PreparedGeometry EXCEPT !.type = LINESTRING, !.size = 2, !.data = ArrayPtr,
                                           !.verts = <<0, 0, 1, 2>>]>>}, BuildCounts)

\* prepared_geometry::build(allocator) on node 1
Build ==
    /\ wk.mode = "ops"
    /\ wk.pc = "idle"
    /\ heap' = [heap EXCEPT ![1] = build(@)]
    /\ wk' = [wk EXCEPT !.pc = "done", !.fn = "build"]
    /\ UNCHANGED <<nalloc, kids, op, fp, vp, rd>>

\* the first loop of build, which reads no vertex, on a vertex array of
\* wk.arg vertices: res is layer_bound
BuildLayers ==
    /\ wk.mode = "ops"
    /\ wk.pc = "idle"
    /\ wk' = [wk EXCEPT !.pc = "done", !.fn = "layer_bound", !.res = layer_bound(wk.arg)]
    /\ UNCHANGED <<heap, nalloc, kids, op, fp, vp, rd>>

NextBuild == Build \/ BuildLayers

SpecBuild == InitBuild /\ [][NextBuild]_vars

\* counts are those of the levels over n vertices, n by its halves: the last
\* ceil(n / B),
\* each other ceil(the one below / B), the first 1, at most MAX_DEPTH of them
LevelCounts(counts, n) ==
    /\ Len(counts) >= 1
    /\ Len(counts) <= MAX_DEPTH
    /\ counts[Len(counts)] = n.hi * (65536 \div NODE_SIZE) + Ceil(n.lo, NODE_SIZE)
    /\ \A i \in 1..(Len(counts) - 1) : counts[i] = Ceil(counts[i + 1], NODE_SIZE)
    /\ counts[1] = 1

\* box is the bounding box of the points ps, a set that is not empty
BoundingBox(box, ps) ==
    /\ \A p \in ps : /\ box.min.x <= p[1] /\ p[1] <= box.max.x
                     /\ box.min.y <= p[2] /\ p[2] <= box.max.y
    /\ \E p \in ps : box.min.x = p[1]
    /\ \E p \in ps : box.max.x = p[1]
    /\ \E p \in ps : box.min.y = p[2]
    /\ \E p \in ps : box.max.y = p[2]

\* the end of the vertex range of leaf box i (from 0) of g
RangeEnd(g, i) ==
    IF i * NODE_SIZE + NODE_SIZE + 1 < g.size THEN i * NODE_SIZE + NODE_SIZE + 1 ELSE g.size

\* the index of g is the one of the claim
IndexBuilt(g) ==
    /\ is_prepared(g)
    /\ g.index.level_count = Len(g.index.level_array)
    /\ g.index.items_count = g.size
    /\ LevelCounts([l \in 1..g.index.level_count |-> Len(g.index.level_array[l])], Halves(g.size))
    /\ \A i \in 0..(Len(g.index.level_array[g.index.level_count]) - 1) :
          BoundingBox(g.index.level_array[g.index.level_count][i + 1],
                      {<<VX(g, j), VY(g, j)>> : j \in (i * NODE_SIZE)..(RangeEnd(g, i) - 1)})
    /\ \A l \in 1..(g.index.level_count - 1) :
          \A j \in 0..(Len(g.index.level_array[l]) - 1) :
             LET Boxes(below) ==
                     {below[k + 1] : k \in (j * NODE_SIZE)..
                         ((IF j * NODE_SIZE + NODE_SIZE < Len(below)
                           THEN j * NODE_SIZE + NODE_SIZE ELSE Len(below)) - 1)}
                 Corners4(bs) == {<<b.min.x, b.min.y>> : b \in bs} \cup {<<b.max.x, b.max.y>> : b \in bs}
             IN  BoundingBox(g.index.level_array[l][j + 1],
                             Corners4(Boxes(g.index.level_array[l + 1])))
    /\ BoundingBox(g.index.level_array[1][1], {<<VX(g, j), VY(g, j)>> : j \in 0..(g.size - 1)})
    /\ \A j \in 0..(g.size - 2) :
          \E i \in 0..(Len(g.index.level_array[g.index.level_count]) - 1) :
             i * NODE_SIZE <= j /\ j + 1 < RangeEnd(g, i)

\* C24: after build on a LINESTRING of N >= 1 vertices, with B = NODE_SIZE:
\* the leaf level has ceil(N / B) boxes, every higher level ceil(count of the
\* level below / B), level 0 one box, level_count <= MAX_DEPTH; leaf box i
\* is the bounding box of the vertices [i * B, min(i * B + B + 1, N)), every
\* upper box that of its child boxes, the root box the extent of all
\* vertices; every pair of consecutive vertices is inside the vertex range
\* of a leaf box; the prepared flag is set.
C24_Build ==
    /\ (OpsDone("build") /\ heap[1].type = LINESTRING /\ heap[1].size >= 1) => IndexBuilt(heap[1])
    /\ OpsDone("layer_bound") => LevelCounts(wk.res, wk.arg)

\* the same for the vertex counts N with N + NODE_SIZE - 1 < 2^32
C24_BuildInRange ==
    /\ (OpsDone("build") /\ heap[1].type = LINESTRING /\ heap[1].size >= 1) => IndexBuilt(heap[1])
    /\ (OpsDone("layer_bound") /\ (wk.arg.hi < 65535 \/ wk.arg.lo + NODE_SIZE - 1 < 65536))
           => LevelCounts(wk.res, wk.arg)

\* ------------------------------------------------ filter_parts, its one pass
\* C25: filter_parts makes exactly one pass over the child list: select is
\* invoked exactly once for each child that was in the list when
\* filter_parts was called, never a second time on a child that was kept,
\* and then the loop ends.
C25_OnePass ==
    (fp.done /\ fp.node # NULL) =>
        \A c \in Range(fp.before) :
            Cardinality({i \in DOMAIN fp.calls : fp.calls[i] = c}) = 1

\* every child is asked about at least once, a removed child exactly once,
\* and no child more than twice
C25_AtMostTwice ==
    (fp.done /\ fp.node # NULL) =>
        \A c \in Range(fp.before) :
            /\ Cardinality({i \in DOMAIN fp.calls : fp.calls[i] = c}) \in {1, 2}
            /\ c \in fp.sel => Cardinality({i \in DOMAIN fp.calls : fp.calls[i] = c}) = 1

\* ------------------------------------------------ prepared_geometry::contains
\* the vertices vs with every y doubled, so that a vertex of odd y is on no
\* level of theirs
Stretched(vs) == [k \in 1..Len(vs) |-> IF k % 2 = 1 THEN vs[k] ELSE 2 * vs[k]]

\* the linear scan of vertex_in_ring over the segments from vertex i on, run
\* stretch by stretch of NODE_SIZE segments: a stretch that ends without
\* BOUNDARY hands the parity of its crossings to the next
RECURSIVE LinearScan(_, _, _, _)
LinearScan(vert, g, i, crossings) ==
    IF i + NODE_SIZE >= g.size THEN RingLoop(vert, g, i, crossings)
    ELSE LET K(r) == IF r = BOUNDARY THEN BOUNDARY
                     ELSE LinearScan(vert, g, i + NODE_SIZE, IF r = INTERIOR THEN 1 ELSE 0)
         IN  K(RingLoop(vert, [g EXCEPT !.size = i + NODE_SIZE], i, crossings))

\* rings that wind over a grid, of one, two, three and more leaf boxes and of
\* three levels, and small closed rings
ContainsRings ==
    {Stretched(Winding(n, a, 11, s, q)) :
        n \in {3, NODE_SIZE + 1, NODE_SIZE + 2, 2 * NODE_SIZE + 6,
               NODE_SIZE * NODE_SIZE + NODE_SIZE + 1},
        a \in {1, 7}, s \in {1, 40}, q \in {5, 50}}
    \cup {<<0, 0, 4, 0, 4, 4, 0, 4, 0, 0>>, <<0, 0, 0, 4, 4, 4, 4, 0, 0, 0>>,
          <<0, 0, 4, 0, 0, 4, 0, 0>>}

ContainsVertices == {[x |-> x, y |-> y] : x \in {0 - 1, 2, 5, 12}, y \in {0, 1, 3, 4, 13}}

\* a ring whose vertex array is set, not yet built, and a vertex
InitContains ==
    InitOps({<<[PreparedGeometry EXCEPT !.type = LINESTRING, !.size = Len(vs) \div 2,
                                        !.data = ArrayPtr, !.verts = vs]>> :
                vs \in ContainsRings},
            ContainsVertices)

\* prepared_geometry::contains(vert) on node 1, built or not: res holds what
\* it returned and the leaf entries it cast
Contains ==
    /\ wk.mode = "ops"
    /\ wk.fn # "contains"
    /\ wk' = [wk EXCEPT !.pc = "done", !.fn = "contains", !.res = ContainsTrace(heap[1], wk.arg)]
    /\ UNCHANGED <<heap, nalloc, kids, op, fp, vp, rd>>

NextContains == Build \/ Contains

SpecContains == InitContains /\ [][NextContains]_vars

\* the entry of level l (from 1) above leaf entry e (from 0) of g
Ancestor(g, e, l) == e \div (NODE_SIZE ^ (g.index.level_count - l))

\* vert.y is outside the y-range of the box of leaf e of g or of a box above
OutsideSlice(g, e, vert) ==
    \E l \in 1..g.index.level_count :
        LET Out(box) == vert.y < box.min.y \/ vert.y > box.max.y
        IN  Out(g.index.level_array[l][Ancestor(g, e, l) + 1])

C27_StackInBounds == ~rd.oob /\ Len(rd.stack) <= StackBufLen

\* ------------------------------------------- try_parse into a used geometry
\* try_parse(out, buf, end) once more, on the same bytes and with the same
\* options, into the geometry that holds what the call before it returned
\* true with; first keeps that tree
ParseAgain ==
    /\ ParseDone
    /\ wk.ret
    /\ "first" \notin DOMAIN wk
    /\ rd' = Setup(rd, rd.buf)
    /\ wk' = [mode |-> "parse", pc |-> "outer", geom |-> 1, ret |-> FALSE,
              hz |-> FALSE, hm |-> FALSE, vcount |-> 0, extent |-> NoExtent,
              set |-> FALSE, out_count |-> 0, out_extent |-> NoExtent, pret |-> TRUE,
              first |-> heap]
    /\ UNCHANGED <<heap, nalloc, kids, op, fp, vp>>

NextReparse == ParseCall \/ ParseOuterStep \/ ParseInnerStep \/ ParseAgain

SpecReparse == InitWkb /\ [][NextReparse]_vars

\* the tree below n: types, flags, part counts, child order, vertex counts
RECURSIVE TreeOf(_, _)
TreeOf(h, n) ==
    [type |-> h[n].type, z |-> h[n].z, m |-> h[n].m, size |-> h[n].size,
     parts |-> IF is_multi_part(h[n])
               THEN [i \in 1..Len(ChildList(h, n)) |-> TreeOf(h, ChildList(h, n)[i])]
               ELSE <<>>]

\* C28: the tree try_parse produces depends only on the input bytes and the
\* reader options, not on what the output geometry held: parsing an input
\* into a geometry that holds the result of an earlier successful parse of
\* the same input yields the same tree (types, part counts, child order,
\* vertex counts) as parsing it into a freshly constructed geometry.
C28_SameTree ==
    (ParseDone /\ "first" \in DOMAIN wk /\ wk.ret) => TreeOf(heap, 1) = TreeOf(wk.first, 1)

\* the same for the inputs whose root is a POINT or LINESTRING or has no part
C28_SameLeaf ==
    (ParseDone /\ "first" \in DOMAIN wk /\ wk.ret
        /\ (~is_multi_part(wk.first[1]) \/ wk.first[1].size = 0))
    => TreeOf(heap, 1) = TreeOf(wk.first, 1)


\* -------------------------------------------- resize_vertices: bytes copied
SizeofDouble == 8

\* the memcpy calls resize_vertices makes for vertex i of g: n bytes to offset
\* dst of the target array, from offset src of the source array where
\* from_source holds and from a default otherwise
Memcpys(g, set_z, set_m, i) ==
    LET source_type == VertexType(g.z, g.m)
        target_type == VertexType(set_z, set_m)
        source_size == SizeofDouble * Stride(g)
        target_size == SizeofDouble * (2 + B2N(set_z) + B2N(set_m))
        source_offset == i * source_size
        target_offset == i * target_size
        Copy(d, s, len) ==
            [dst |-> target_offset + d, from_source |-> TRUE, src |-> source_offset + s,
             n |-> len]
        Default(d) ==
            [dst |-> target_offset + d, from_source |-> FALSE, src |-> 0, n |-> SizeofDouble]
    IN  IF source_type = target_type THEN {}
        ELSE IF source_type = TypeXY
        THEN IF target_type = TypeXYZ \/ target_type = TypeXYM
             THEN {Copy(0, 0, source_size), Default(source_size)}
             ELSE {Copy(0, 0, source_size), Default(source_size),
                   Default(source_size + SizeofDouble)}
        ELSE IF source_type = TypeXYZ
        THEN IF target_type = TypeXY THEN {Copy(0, 0, target_size)}
             ELSE IF target_type = TypeXYM
             THEN {Copy(0, 0, target_size), Default(SizeofDouble * 2)}
             ELSE {Copy(0, 0, target_size), Default(SizeofDouble * 3)}
        ELSE IF source_type = TypeXYM
        THEN IF target_type = TypeXY THEN {Copy(0, 0, target_size)}
             ELSE IF target_type = TypeXYZ
             THEN {Copy(0, 0, SizeofDouble * 2), Default(SizeofDouble * 2)}
             ELSE {Copy(0, 0, SizeofDouble * 2), Default(SizeofDouble * 2),
                   Copy(SizeofDouble * 3, SizeofDouble * 2, SizeofDouble)}
        ELSE IF target_type = TypeXY THEN {Copy(0, 0, SizeofDouble * 2)}
             ELSE IF target_type = TypeXYZ THEN {Copy(0, 0, SizeofDouble * 3)}
             ELSE {Copy(0, 0, SizeofDouble * 2),
                   Copy(SizeofDouble * 2, SizeofDouble * 3, SizeofDouble)}

\* the copies of the call that began with heap b: force_zm resizes every
\* single part that is not empty, each with the flags it has itself
ResizeCopies(b) ==
    UNION {UNION {{[part |-> p, i |-> j, c |-> c] :
                      c \in Memcpys(b[p], wk.arg.set_z, wk.arg.set_m, j)}
                  : j \in 0..(b[p].size - 1)}
           : p \in {q \in DOMAIN b : ~is_multi_part(b[q]) /\ ~is_empty(b[q])}}

\* the copy reads inside the source array of its part
ReadInside(b, e) ==
    e.c.from_source =>
        /\ 0 <= e.c.src
        /\ e.c.src + e.c.n <= b[e.part].size * SizeofDouble * Stride(b[e.part])

\* the copy writes inside the target array allocated for its part
WriteInside(b, e) ==
    /\ 0 <= e.c.dst
    /\ e.c.dst + e.c.n <= b[e.part].size * SizeofDouble
                              * (2 + B2N(wk.arg.set_z) + B2N(wk.arg.set_m))

\* C29: while force_zm converts a leaf's vertex array, every copy reads only
\* bytes inside the source array [0, count * source width) and writes only
\* bytes inside the new target array [0, count * target width), for each of
\* the twelve pairs of vertex types and every vertex, the last included.
C29_CopiesInBounds ==
    OpsDone("force_zm") =>
        \A k \in 1..Len(wk.res) : \A e \in ResizeCopies(wk.res[k]) :
            ReadInside(wk.res[k], e) /\ WriteInside(wk.res[k], e)

\* what holds of the code: every write is inside the target array, and every
\* read is inside the source array unless the leaf goes from XYZ to XYZM
C29_WritesInBounds ==
    OpsDone("force_zm") =>
        \A k \in 1..Len(wk.res) : \A e \in ResizeCopies(wk.res[k]) :
            /\ WriteInside(wk.res[k], e)
            /\ ~ReadInside(wk.res[k], e) =>
                  /\ VertexType(wk.res[k][e.part].z, wk.res[k][e.part].m) = TypeXYZ
                  /\ VertexType(wk.arg.set_z, wk.arg.set_m) = TypeXYZM
                  /\ e.i = wk.res[k][e.part].size - 1


\* ----------------------------------- what an extraction leaves in the source
\* n is root or lies below it, by the parent pointers
RECURSIVE Below(_, _, _)
Below(h, n, root) ==
    \/ n = root
    \/ h[n].prnt # NULL /\ Below(h, h[n].prnt, root)

\* the leaves of the other kinds that lay below the source before the call; a
\* ring of a polygon is a part of its polygon, not a leaf of its own
OtherLeaves ==
    {n \in DOMAIN wk.res[1] :
        /\ wk.res[1][n].type \in {POINT, LINESTRING, POLYGON} \ {wk.arg}
        /\ n # 1
        /\ wk.res[1][wk.res[1][n].prnt].type # POLYGON
        /\ Below(wk.res[1], n, 1)}

\* C30: extract_points(g, out) removes from g only POINT leaves and containers
\* that hold nothing else: every LINESTRING and POLYGON leaf that was reachable
\* from g before the call is reachable from g after it, also when it sits in a
\* nested GEOMETRY_COLLECTION next to points; likewise for extract_linestrings
\* and extract_polygons and the other leaf kinds.
C30_OtherLeavesStay ==
    OpsDone("extract") => \A n \in OtherLeaves : Below(heap, n, 1)

\* what holds of the code: a leaf of another kind stays below g when it is a
\* part of g itself or of a multi geometry of another kind that is a part of g
C30_DirectPartsStay ==
    OpsDone("extract") =>
        \A n \in OtherLeaves :
            (LET p == wk.res[1][n].prnt
             IN  \/ p = 1
                 \/ /\ wk.res[1][p].prnt = 1
                    /\ ~select_parts(wk.arg, wk.res[1][p].type)) =>
                Below(heap, n, 1)

====
